---------------------------- MODULE Spec2Model ----------------------------
(***************************************************************************)
(* Host Execution & Inventory Cache Subsystem of the KVM dashboard.        *)
(*                                                                         *)
(*   SpecExec    : LibvirtRemote._run under the class-wide semaphore       *)
(*                 (src/dashboard/app/libvirt_remote.py)                   *)
(*   SpecCache   : LibvirtCacheStore.get / refresh                         *)
(*                 (src/dashboard/app/libvirt_cache.py)                    *)
(*   SpecConsole : vm_console and build_console_urls                       *)
(*                 (src/dashboard/app/main.py, console_service.py)         *)
(*                                                                         *)
(* Each specification drives its own component; the variables of the other *)
(* components stay at their initial values.                                *)
(***************************************************************************)
EXTENDS Integers, Sequences, FiniteSets, TLC

(***************************************************************************)
(* Bounds of the model.                                                    *)
(***************************************************************************)
NumThreads == 2          \* request-handling threads calling _run
MaxConcurrency == 2      \* LIBVIRT_MAX_CONCURRENCY is drawn from 1..MaxConcurrency
MaxRetry == 1            \* LIBVIRT_FORK_RETRY_COUNT is drawn from 0..MaxRetry
MaxTime == 2             \* the wall clock runs over 1..MaxTime
MaxTtl == 1              \* LIBVIRT_CACHE_TTL_S is drawn from 0..MaxTtl
MaxRefresh == 2          \* refreshes started in one behaviour

Threads == 1..NumThreads
Uris == {"qemu+ssh://hA/system", "qemu+ssh://hB/system"}
NoUri == "none"

VARIABLES
    \* ---- Command Executor (libvirt_remote.py) ----
    max_concurrency,   \* self.max_concurrency, read from the environment
    retry_count,       \* self.retry_count, read from the environment
    semaphores,        \* every BoundedSemaphore created so far: <<[size, value]>>
    cls_semaphore,     \* LibvirtRemote._semaphore: index into semaphores, 0 = None
    run,               \* per thread: the _run call it is executing
    \* ---- wall clock ----
    now,               \* time.time()
    \* ---- Inventory Cache (libvirt_cache.py) ----
    ttl_s,             \* LibvirtCacheStore.ttl_s
    rows,              \* table host_libvirt_cache: host_id -> row or NoRow
    registered,        \* host ids in the host registry
    nextEpoch,         \* number of the next refresh invocation
    req,               \* per thread: the cache operation it is executing
    resp,              \* the response handed to a caller by the step just taken
    \* ---- Console Session Broker (main.py, console_service.py) ----
    CONSOLE_SESSION_TTL_S,  \* session TTL, read from the environment
    CONSOLE_SESSIONS,  \* the session history, most recent first
    nextUuid,          \* number of uuid4() values drawn so far, plus one
    creq,              \* per thread: the vm_console request it is executing
    cresp,             \* the vm_console response returned by the step just taken
    issued,            \* history: every session a response has handed out
    \* ---- Agent VM store (agent/app/routes.py, simulated mode) ----
    agent_vms,         \* state.vms: vm_id -> record or AbsentVm
    trail,             \* history: per vm_id, the power actions applied to it
    aresp,             \* the agent's response returned by the step just taken
    agent_networks,    \* state.networks: the network ids stored
    vm_networks,       \* per vm_id: the networks list of its VMRecord
    agent_snapshots,   \* state.snapshots: vm_id -> snapshot ids, or NoSnapshots
    \* ---- Agent push state (agent/app/services.py, state.py) ----
    agent_state,       \* last_push_at, last_push_ok, last_error, push_count
    push,              \* per pusher: its position inside push_to_dashboard
    tally,             \* history: pushes begun, pushes whose two requests succeeded
    \* ---- Domain Mapper: disk-source resolution (libvirt_remote.py) ----
    disk,              \* the _disk_source_from_image call in progress
    \* ---- Domain Mapper: methods over _run (libvirt_remote.py) ----
    mop,               \* the LibvirtRemote method in progress
    \* ---- list_vms: parsing of virsh dominfo (libvirt_remote.py, agent) ----
    info,              \* the text _run returned for dominfo
    power,             \* the power_state each list_vms derived from it
    \* ---- Write endpoints (main.py, vmware_compat.py) ----
    wreq,              \* per thread: the write endpoint it is executing
    wresp,             \* the endpoint response returned by the step just taken
    hyp,               \* per host: number of writes its hypervisor has applied
    seen               \* history: per refresh, the writes its fetch has seen

execVars == <<max_concurrency, retry_count, semaphores, cls_semaphore, run>>

cacheVars == <<ttl_s, rows, registered, nextEpoch, req, resp>>

consoleVars == <<CONSOLE_SESSION_TTL_S, CONSOLE_SESSIONS, nextUuid, creq, cresp, issued>>

storeVars == <<agent_networks, vm_networks, agent_snapshots>>

pushVars == <<agent_state, push, tally>>

agentVars == <<agent_vms, trail, aresp, storeVars, pushVars>>

mapperVars == <<disk, mop, info, power>>

writeVars == <<wreq, wresp, hyp, seen>>

vars == <<max_concurrency, retry_count, semaphores, cls_semaphore, run,
          now, ttl_s, rows, registered, nextEpoch, req, resp,
          CONSOLE_SESSION_TTL_S, CONSOLE_SESSIONS, nextUuid, creq, cresp, issued,
          agent_vms, trail, aresp, agent_networks, vm_networks, agent_snapshots,
          agent_state, push, tally, disk, mop, info, power,
          wreq, wresp, hyp, seen>>

(***************************************************************************)
(* Command Executor: LibvirtRemote._run                                    *)
(***************************************************************************)

\* The marker text of a fork-exhaustion failure (libvirt_remote.py:63).
ForkMarker == "cannot fork child process"

\* The timeout of the call's LibvirtRemote and the acquire wait computed
\* from it, kept while the call waits for a slot; NoWait before and after.
NoWait == [timeout_s |-> 0, acquire_timeout |-> 0]

\* A thread that is not inside _run.
IdleRun == [pc |-> "idle", uri |-> NoUri, sem |-> 0, wait |-> NoWait,
            outs |-> <<>>, result |-> "none", acquires |-> 0, releases |-> 0]

\* Semaphores made in one behaviour.
MaxSemaphores == 2

\* The ways one spawned virsh process can end: exit 0, killed at timeout_s,
\* nonzero exit whose output holds ForkMarker, nonzero exit without it.
ProcessOutcomes == {"ok", "timeout", "fork", "failure"}

\* Mutant of NeedsNewSemaphore: the semaphore is kept on the LibvirtRemote
\* made for the call's host instead of on the class.
NeedsNewSemaphorePerInstance(size) == TRUE

\* cls._semaphore is None or cls._semaphore_size != size
NeedsNewSemaphore(size) ==
    \/ cls_semaphore = 0
    \/ semaphores[cls_semaphore].size # size

\* _get_semaphore(size): the index of the semaphore the caller gets.
GetSemaphoreIndex(size) ==
    IF NeedsNewSemaphore(size) THEN Len(semaphores) + 1 ELSE cls_semaphore

\* _get_semaphore(size): the class state afterwards.
GetSemaphoreEffect(size) ==
    IF NeedsNewSemaphore(size)
    THEN /\ semaphores' = Append(semaphores, [size |-> size, value |-> size])
         /\ cls_semaphore' = Len(semaphores) + 1
    ELSE UNCHANGED <<semaphores, cls_semaphore>>

\* LIBVIRT_CMD_TIMEOUT_S values the environment may hold (8 is the default).
CmdTimeouts == {3, 8}

\* _run, line 42: acquire_timeout = max(self.timeout_s + 1, 5)
AcquireTimeoutS(ts) == IF ts + 1 > 5 THEN ts + 1 ELSE 5

\* _run, lines 40-42, on a LibvirtRemote made for this call with
\* timeout_s = ts: build cmd, fetch the class semaphore, compute the wait.
Call(t, u, ts) ==
    /\ run[t].pc = "idle"
    /\ run' = [run EXCEPT ![t] = [IdleRun EXCEPT !.pc = "acquire", !.uri = u,
                                     !.sem = GetSemaphoreIndex(max_concurrency),
                                     !.wait = [timeout_s |-> ts,
                                               acquire_timeout |-> AcquireTimeoutS(ts)]]]
    /\ GetSemaphoreEffect(max_concurrency)
    /\ UNCHANGED <<max_concurrency, retry_count>>
    /\ UNCHANGED <<now, cacheVars, consoleVars, agentVars, mapperVars, writeVars>>

\* Mutant of CanAcquire: a semaphore that never blocks.
CanAcquireUnbounded(s) == s \in 1..Len(semaphores)

\* semaphore.acquire succeeds only while the counter is positive.
CanAcquire(s) == semaphores[s].value > 0

\* _run, line 43: semaphore.acquire(timeout=acquire_timeout) returned True.
Acquire(t) ==
    /\ run[t].pc = "acquire"
    /\ CanAcquire(run[t].sem)
    /\ semaphores' = [semaphores EXCEPT ![run[t].sem].value = @ - 1]
    /\ run' = [run EXCEPT ![t].pc = "spawn", ![t].acquires = @ + 1,
                          ![t].wait = NoWait]
    /\ UNCHANGED <<max_concurrency, retry_count, cls_semaphore>>
    /\ UNCHANGED <<now, cacheVars, consoleVars, agentVars, mapperVars, writeVars>>

\* Mutant of AcquireTimeout: the failure is raised inside the try block, so
\* the finally clause releases a slot that was never taken.
AcquireTimeoutInsideTry(t) ==
    /\ run[t].pc = "acquire"
    /\ semaphores[run[t].sem].value = 0
    /\ run' = [run EXCEPT ![t].pc = "finally", ![t].result = "QueueSaturated"]
    /\ UNCHANGED <<max_concurrency, retry_count, semaphores, cls_semaphore>>
    /\ UNCHANGED <<now, cacheVars, consoleVars, agentVars, mapperVars, writeVars>>

\* Mutant of AcquireTimeout: acquire is called without a timeout and blocks
\* until a slot is free.
AcquireBlocks(t) ==
    /\ run[t].pc = "acquire"
    /\ FALSE
    /\ UNCHANGED vars

\* _run, lines 43-44: the acquire wait elapsed with no slot free.
AcquireTimeout(t) ==
    /\ run[t].pc = "acquire"
    /\ semaphores[run[t].sem].value = 0
    /\ run' = [run EXCEPT ![t].pc = "done", ![t].result = "QueueSaturated"]
    /\ UNCHANGED <<max_concurrency, retry_count, semaphores, cls_semaphore>>
    /\ UNCHANGED <<now, cacheVars, consoleVars, agentVars, mapperVars, writeVars>>

\* _run, lines 49-54: subprocess.check_output starts the virsh process.
Spawn(t) ==
    /\ run[t].pc = "spawn"
    /\ run' = [run EXCEPT ![t].pc = "running", ![t].outs = Append(@, "running")]
    /\ UNCHANGED <<max_concurrency, retry_count, semaphores, cls_semaphore>>
    /\ UNCHANGED <<now, cacheVars, consoleVars, agentVars, mapperVars, writeVars>>

\* _run, lines 55-56: the binary is absent, no process starts.
SpawnNotFound(t) ==
    /\ run[t].pc = "spawn"
    /\ run' = [run EXCEPT ![t].pc = "finally", ![t].outs = Append(@, "not_found"),
                          ![t].result = "ToolNotInstalled"]
    /\ UNCHANGED <<max_concurrency, retry_count, semaphores, cls_semaphore>>
    /\ UNCHANGED <<now, cacheVars, consoleVars, agentVars, mapperVars, writeVars>>

\* range(attempts): the 0-based index of the attempt in progress.
Attempt(t) == Len(run[t].outs) - 1

\* Mutant of Retries: every nonzero exit is retried, not only fork exhaustion.
RetriesAnyFailure(t, o) ==
    o \in {"fork", "failure"} /\ Attempt(t) < (retry_count + 1) - 1

\* Mutant of Retries: a timed-out attempt is retried like fork exhaustion.
RetriesTimeoutToo(t, o) ==
    o \in {"fork", "timeout"} /\ Attempt(t) < (retry_count + 1) - 1

\* _run, line 63: the failed attempt is retried.
Retries(t, o) == o = "fork" /\ Attempt(t) < (retry_count + 1) - 1

\* What _run raises or returns for a process outcome that is not retried.
ResultOf(o) ==
    CASE o = "ok"      -> "ok"
      [] o = "timeout" -> "Timeout"
      [] o = "fork"    -> "ProcessFailure"
      [] o = "failure" -> "ProcessFailure"

\* Mutant of Exit: the slot is given back before the sleep between two
\* attempts.
ExitReleasesBeforeSleep(t, o) ==
    /\ run[t].pc = "running"
    /\ LET outs1 == [run[t].outs EXCEPT ![Len(run[t].outs)] = o]
       IN  IF Retries(t, o)
           THEN /\ run' = [run EXCEPT ![t].pc = "sleeping", ![t].outs = outs1]
                /\ semaphores' = [semaphores EXCEPT ![run[t].sem].value = @ + 1]
           ELSE /\ run' = [run EXCEPT ![t].pc = "finally", ![t].outs = outs1,
                                      ![t].result = ResultOf(o)]
                /\ UNCHANGED semaphores
    /\ UNCHANGED <<max_concurrency, retry_count, cls_semaphore>>
    /\ UNCHANGED <<now, cacheVars, consoleVars, agentVars, mapperVars, writeVars>>

\* _run, lines 49-66: the spawned process ends with outcome o.
Exit(t, o) ==
    /\ run[t].pc = "running"
    /\ LET outs1 == [run[t].outs EXCEPT ![Len(run[t].outs)] = o]
       IN  IF Retries(t, o)
           THEN run' = [run EXCEPT ![t].pc = "sleeping", ![t].outs = outs1]
           ELSE run' = [run EXCEPT ![t].pc = "finally", ![t].outs = outs1,
                                   ![t].result = ResultOf(o)]
    /\ UNCHANGED <<max_concurrency, retry_count, semaphores, cls_semaphore>>
    /\ UNCHANGED <<now, cacheVars, consoleVars, agentVars, mapperVars, writeVars>>

\* _run, lines 64-65: time.sleep(retry_sleep_s) is over; continue the loop.
Wake(t) ==
    /\ run[t].pc = "sleeping"
    /\ run' = [run EXCEPT ![t].pc = "spawn"]
    /\ UNCHANGED <<max_concurrency, retry_count, semaphores, cls_semaphore>>
    /\ UNCHANGED <<now, cacheVars, consoleVars, agentVars, mapperVars, writeVars>>

\* Mutant of Release: the slot is given back after the try block instead of
\* in a finally clause, so a raised failure keeps it.
ReleaseOnlyOnSuccess(t) ==
    /\ run[t].pc = "finally"
    /\ LET s == run[t].sem
       IN  IF run[t].result = "ok"
           THEN /\ semaphores' = [semaphores EXCEPT ![s].value = @ + 1]
                /\ run' = [run EXCEPT ![t].pc = "done", ![t].releases = @ + 1]
           ELSE /\ UNCHANGED semaphores
                /\ run' = [run EXCEPT ![t].pc = "done"]
    /\ UNCHANGED <<max_concurrency, retry_count, cls_semaphore>>
    /\ UNCHANGED <<now, cacheVars, consoleVars, agentVars, mapperVars, writeVars>>

\* _run, lines 67-68: finally: semaphore.release().  A BoundedSemaphore
\* raises ValueError when released above its initial value.
Release(t) ==
    /\ run[t].pc = "finally"
    /\ LET s == run[t].sem
       IN  IF semaphores[s].value < semaphores[s].size
           THEN /\ semaphores' = [semaphores EXCEPT ![s].value = @ + 1]
                /\ run' = [run EXCEPT ![t].pc = "done", ![t].releases = @ + 1]
           ELSE /\ UNCHANGED semaphores
                /\ run' = [run EXCEPT ![t].pc = "done", ![t].releases = @ + 1,
                                      ![t].result = "ValueError"]
    /\ UNCHANGED <<max_concurrency, retry_count, cls_semaphore>>
    /\ UNCHANGED <<now, cacheVars, consoleVars, agentVars, mapperVars, writeVars>>

\* The caller has the result of _run; the thread serves its next request.
Return(t) ==
    /\ run[t].pc = "done"
    /\ run' = [run EXCEPT ![t] = IdleRun]
    /\ UNCHANGED <<max_concurrency, retry_count, semaphores, cls_semaphore>>
    /\ UNCHANGED <<now, cacheVars, consoleVars, agentVars, mapperVars, writeVars>>

\* __init__, line 26: LIBVIRT_MAX_CONCURRENCY is read from the environment
\* each time a LibvirtRemote is made.  The environment changes to n between
\* two instantiations, after the current value has been used by a call.
SetMaxConcurrency(n) ==
    /\ n # max_concurrency
    /\ cls_semaphore # 0
    /\ semaphores[cls_semaphore].size = max_concurrency
    /\ Len(semaphores) < MaxSemaphores
    /\ max_concurrency' = n
    /\ UNCHANGED <<retry_count, semaphores, cls_semaphore, run>>
    /\ UNCHANGED <<now, cacheVars, consoleVars, agentVars, mapperVars, writeVars>>

\* The executor before any _run call, for a given environment.
ExecStart(n, r) ==
    /\ max_concurrency = n
    /\ retry_count = r
    /\ semaphores = <<>>
    /\ cls_semaphore = 0
    /\ run = [t \in Threads |-> IdleRun]

(***************************************************************************)
(* Inventory Cache: LibvirtCacheStore                                      *)
(***************************************************************************)

Hosts == {"h1", "h2"}
NoHost == "none"

\* SQL NULL / Python None; a nullable number x that is present is <<x>>.
Null == <<>>

\* The result of .first() when no row matches.
NoRow == [absent |-> TRUE]

\* No response yet.
NoPayload == [cache |-> "none"]

\* The four Domain Mapper calls of a refresh, in the order refresh makes them.
Kinds == <<"list_vms", "list_networks", "list_images", "list_storage_pools">>

\* What the Domain Mapper returns for call k of refresh invocation e.
Coll(k, e) == [kind |-> k, epoch |-> e]

\* The detail of the HTTPException _libvirt_call raises when a call of
\* refresh invocation e fails.
ErrorDetail(e) == <<"libvirt call failed", e>>

\* json.dumps / json.loads
dumps(c) == <<"json", c>>
loads(b) == b[2]

\* Mutant of UpsertRow: the ON CONFLICT branch leaves pools_json out.
UpsertRowPartial(old, f, ts) ==
    IF old = NoRow
    THEN [vms_json |-> dumps(f[1]), networks_json |-> dumps(f[2]),
          images_json |-> dumps(f[3]), pools_json |-> dumps(f[4]),
          updated_at |-> ts, last_error |-> Null, last_success_at |-> <<ts>>]
    ELSE [old EXCEPT !.vms_json = dumps(f[1]), !.networks_json = dumps(f[2]),
                     !.images_json = dumps(f[3]),
                     !.updated_at = ts, !.last_error = Null, !.last_success_at = <<ts>>]

\* Mutant of UpsertRow: on conflict only the first collection is replaced.
UpsertRowVmsFirst(old, f, ts) ==
    IF old = NoRow
    THEN [vms_json |-> dumps(f[1]), networks_json |-> dumps(f[2]),
          images_json |-> dumps(f[3]), pools_json |-> dumps(f[4]),
          updated_at |-> ts, last_error |-> Null, last_success_at |-> <<ts>>]
    ELSE [old EXCEPT !.vms_json = dumps(f[1]),
                     !.updated_at = ts, !.last_error = Null, !.last_success_at = <<ts>>]

\* Mutant of UpsertRow: a successful refresh keeps the old last_error.
UpsertRowKeepsError(old, f, ts) ==
    IF old = NoRow
    THEN [vms_json |-> dumps(f[1]), networks_json |-> dumps(f[2]),
          images_json |-> dumps(f[3]), pools_json |-> dumps(f[4]),
          updated_at |-> ts, last_error |-> Null, last_success_at |-> <<ts>>]
    ELSE [old EXCEPT !.vms_json = dumps(f[1]), !.networks_json = dumps(f[2]),
                     !.images_json = dumps(f[3]), !.pools_json = dumps(f[4]),
                     !.updated_at = ts, !.last_success_at = <<ts>>]

\* Mutant of UpsertRow: last_success_at is written by the INSERT only.
UpsertRowSuccessAtOnInsert(old, f, ts) ==
    IF old = NoRow
    THEN [vms_json |-> dumps(f[1]), networks_json |-> dumps(f[2]),
          images_json |-> dumps(f[3]), pools_json |-> dumps(f[4]),
          updated_at |-> ts, last_error |-> Null, last_success_at |-> <<ts>>]
    ELSE [old EXCEPT !.vms_json = dumps(f[1]), !.networks_json = dumps(f[2]),
                     !.images_json = dumps(f[3]), !.pools_json = dumps(f[4]),
                     !.updated_at = ts, !.last_error = Null]

\* refresh, lines 42-63: INSERT ... ON CONFLICT(host_id) DO UPDATE SET ...
\* applied to the stored row old (NoRow: the INSERT), with the fetched
\* collections f and the timestamp ts.
UpsertRow(old, f, ts) ==
    IF old = NoRow
    THEN [vms_json |-> dumps(f[1]), networks_json |-> dumps(f[2]),
          images_json |-> dumps(f[3]), pools_json |-> dumps(f[4]),
          updated_at |-> ts, last_error |-> Null, last_success_at |-> <<ts>>]
    ELSE [old EXCEPT !.vms_json = dumps(f[1]), !.networks_json = dumps(f[2]),
                     !.images_json = dumps(f[3]), !.pools_json = dumps(f[4]),
                     !.updated_at = ts, !.last_error = Null, !.last_success_at = <<ts>>]

\* float(row.last_success_at) if row.last_success_at else None
OptFloat(x) == IF x # Null /\ x # <<0>> THEN x ELSE Null

\* Mutant of HitPayload: the hit reports the time of the read as updated_at.
HitPayloadNow(row) ==
    [vms |-> loads(row.vms_json), networks |-> loads(row.networks_json),
     images |-> loads(row.images_json), pools |-> loads(row.pools_json),
     updated_at |-> now, last_error |-> row.last_error,
     last_success_at |-> OptFloat(row.last_success_at), cache |-> "hit"]

\* get, lines 75-84: the response of a cache hit.
HitPayload(row) ==
    [vms |-> loads(row.vms_json), networks |-> loads(row.networks_json),
     images |-> loads(row.images_json), pools |-> loads(row.pools_json),
     updated_at |-> row.updated_at, last_error |-> row.last_error,
     last_success_at |-> OptFloat(row.last_success_at), cache |-> "hit"]

\* Mutant of StalePayload: the stale response keeps the row's old last_error.
StalePayloadOldError(row, detail) ==
    [vms |-> loads(row.vms_json), networks |-> loads(row.networks_json),
     images |-> loads(row.images_json), pools |-> loads(row.pools_json),
     updated_at |-> row.updated_at, last_error |-> row.last_error,
     last_success_at |-> OptFloat(row.last_success_at), cache |-> "stale"]

\* get, lines 95-104: the response after a failed refresh, from the row read
\* at the start of get.
StalePayload(row, detail) ==
    [vms |-> loads(row.vms_json), networks |-> loads(row.networks_json),
     images |-> loads(row.images_json), pools |-> loads(row.pools_json),
     updated_at |-> row.updated_at, last_error |-> detail,
     last_success_at |-> OptFloat(row.last_success_at), cache |-> "stale"]

\* Mutant of MissPayload: the response is assembled in another order.
MissPayloadSwapped(f, ts) ==
    [vms |-> f[1], networks |-> f[2], images |-> f[4], pools |-> f[3],
     updated_at |-> ts, cache |-> "miss"]

\* Mutant of MissPayload: the response of a successful refresh has no
\* updated_at.
MissPayloadNoTimestamp(f, ts) ==
    [vms |-> f[1], networks |-> f[2], images |-> f[3], pools |-> f[4],
     cache |-> "miss"]

\* refresh, line 65: the response of a successful refresh.
MissPayload(f, ts) ==
    [vms |-> f[1], networks |-> f[2], images |-> f[3], pools |-> f[4],
     updated_at |-> ts, cache |-> "miss"]

\* Mutant of Fresh: a row exactly ttl_s old counts as expired.
FreshStrict(row) == now - row.updated_at < ttl_s

\* get, line 74: time.time() - float(row.updated_at) <= self.ttl_s
Fresh(row) == now - row.updated_at <= ttl_s

\* Mutant of ServesHit: force_refresh is ignored.
ServesHitIgnoresForce(force, row) == row # NoRow /\ Fresh(row)

\* get, line 74: the stored row is served without a refresh.
ServesHit(force, row) == ~force /\ row # NoRow /\ Fresh(row)

\* A thread that is not inside a cache operation.
IdleReq == [pc |-> "idle", op |-> "none", host |-> NoHost, force |-> FALSE,
            row |-> NoRow, epoch |-> 0, fetched |-> <<>>, ts |-> 0]

\* The step just taken ended no cache operation.
NoResp == [op |-> "none", host |-> NoHost, force |-> FALSE, outcome |-> "none",
           failed_call |-> 0, error |-> Null, payload |-> NoPayload]

\* get, lines 67-87: SELECT the row.  Not forced and the row is fresh: the
\* hit response.  Otherwise enter refresh, keeping the row read.
GetBegin(t, h, force) ==
    /\ req[t].pc = "idle"
    /\ IF ServesHit(force, rows[h])
       THEN /\ resp' = [op |-> "get", host |-> h, force |-> force,
                        outcome |-> "returned", failed_call |-> 0,
                        error |-> Null, payload |-> HitPayload(rows[h])]
            /\ UNCHANGED <<req, nextEpoch>>
       ELSE /\ nextEpoch <= MaxRefresh
            /\ req' = [req EXCEPT ![t] = [IdleReq EXCEPT !.pc = "fetch", !.op = "get",
                                             !.host = h, !.force = force,
                                             !.row = rows[h], !.epoch = nextEpoch]]
            /\ nextEpoch' = nextEpoch + 1
            /\ resp' = NoResp
    /\ UNCHANGED <<ttl_s, rows, registered>>
    /\ UNCHANGED <<now, execVars, consoleVars, agentVars, mapperVars>>

\* _refresh_host_cache (main.py:340): refresh called directly.
RefreshBegin(t, h) ==
    /\ req[t].pc = "idle"
    /\ nextEpoch <= MaxRefresh
    /\ req' = [req EXCEPT ![t] = [IdleReq EXCEPT !.pc = "fetch", !.op = "refresh",
                                     !.host = h, !.epoch = nextEpoch]]
    /\ nextEpoch' = nextEpoch + 1
    /\ resp' = NoResp
    /\ UNCHANGED <<ttl_s, rows, registered>>
    /\ UNCHANGED <<now, execVars, consoleVars, agentVars, mapperVars>>

\* What the four Domain Mapper calls of refresh invocation e return.
Fetched(e) == [k \in 1..4 |-> Coll(Kinds[k], e)]

\* refresh, lines 36-40: the four fetcher calls return, then
\* now = time.time().  The calls touch no state of the cache.
FetchAll(t) ==
    /\ req[t].pc = "fetch"
    /\ req' = [req EXCEPT ![t] = [IdleReq EXCEPT !.pc = "commit", !.op = req[t].op,
                                     !.host = req[t].host, !.force = req[t].force,
                                     !.epoch = req[t].epoch,
                                     !.fetched = Fetched(req[t].epoch), !.ts = now]]
    /\ resp' = NoResp
    /\ UNCHANGED <<ttl_s, rows, registered, nextEpoch>>
    /\ UNCHANGED <<now, execVars, consoleVars, agentVars, mapperVars>>

\* Mutant of Commit: the upsert has no conflict target and writes every row.
CommitEveryRow(t) ==
    /\ req[t].pc = "commit"
    /\ rows' = [h \in Hosts |-> UpsertRow(rows[h], req[t].fetched, req[t].ts)]
    /\ resp' = [op |-> req[t].op, host |-> req[t].host, force |-> req[t].force,
                outcome |-> "returned", failed_call |-> 0,
                error |-> Null, payload |-> MissPayload(req[t].fetched, req[t].ts)]
    /\ req' = [req EXCEPT ![t] = IdleReq]
    /\ UNCHANGED <<ttl_s, registered, nextEpoch>>
    /\ UNCHANGED <<now, execVars, consoleVars, agentVars, mapperVars>>

\* refresh, lines 41-65: the upsert, the commit and the miss response.
Commit(t) ==
    /\ req[t].pc = "commit"
    /\ rows' = [rows EXCEPT ![req[t].host] =
                    UpsertRow(rows[req[t].host], req[t].fetched, req[t].ts)]
    /\ resp' = [op |-> req[t].op, host |-> req[t].host, force |-> req[t].force,
                outcome |-> "returned", failed_call |-> 0,
                error |-> Null, payload |-> MissPayload(req[t].fetched, req[t].ts)]
    /\ req' = [req EXCEPT ![t] = IdleReq]
    /\ UNCHANGED <<ttl_s, registered, nextEpoch>>
    /\ UNCHANGED <<now, execVars, consoleVars, agentVars, mapperVars>>

\* Mutant of FallsBackToStale: get has no handler either.
FallsBackNever(op, snap) == FALSE

\* get, lines 88-89: the row read at the start of get decides what a failed
\* refresh does; a refresh called directly has no handler.
FallsBackToStale(op, snap) == op = "get" /\ snap # NoRow

\* Mutant of UpdateLastError: recording the failure also restarts the row's age.
UpdateLastErrorTouchesAge(old, detail) ==
    IF old = NoRow THEN NoRow
    ELSE [old EXCEPT !.last_error = detail, !.updated_at = now]

\* get, lines 90-93: UPDATE ... SET last_error WHERE host_id; no row, no change.
UpdateLastError(old, detail) ==
    IF old = NoRow THEN NoRow ELSE [old EXCEPT !.last_error = detail]

\* Mutant of FailureRow: the failure is recorded with an upsert, whatever
\* get had read.
FailureRowAlwaysRecorded(op, snap, old, detail) ==
    IF old = NoRow
    THEN [vms_json |-> dumps(<<>>), networks_json |-> dumps(<<>>),
          images_json |-> dumps(<<>>), pools_json |-> dumps(<<>>),
          updated_at |-> now, last_error |-> detail, last_success_at |-> Null]
    ELSE [old EXCEPT !.last_error = detail]

\* The stored row old after a refresh failed with detail, for an operation op
\* that had read snap (get, lines 88-94, and the re-raise of line 105).
FailureRow(op, snap, old, detail) ==
    IF FallsBackToStale(op, snap) THEN UpdateLastError(old, detail) ELSE old

\* refresh, lines 36-39: fetcher call number k raises HTTPException after the
\* calls before it returned.  refresh lets it through; get (lines 88-105)
\* records it on the stored row and answers stale when it had read a row,
\* and re-raises otherwise.
FetchFail(t, k) ==
    /\ req[t].pc = "fetch"
    /\ LET detail == ErrorDetail(req[t].epoch)
           h == req[t].host
       IN  /\ rows' = [rows EXCEPT ![h] = FailureRow(req[t].op, req[t].row, rows[h], detail)]
           /\ resp' = [op |-> req[t].op, host |-> h, force |-> req[t].force,
                       outcome |-> IF FallsBackToStale(req[t].op, req[t].row)
                                   THEN "returned" ELSE "raised",
                       failed_call |-> k, error |-> detail,
                       payload |-> IF FallsBackToStale(req[t].op, req[t].row)
                                   THEN StalePayload(req[t].row, detail)
                                   ELSE NoPayload]
    /\ req' = [req EXCEPT ![t] = IdleReq]
    /\ UNCHANGED <<ttl_s, registered, nextEpoch>>
    /\ UNCHANGED <<now, execVars, consoleVars, agentVars, mapperVars>>

(***************************************************************************)
(* Console Session Broker: vm_console and build_console_urls               *)
(***************************************************************************)

MaxMint == 3             \* sessions minted in one behaviour
MaxSessionTtl == 1       \* CONSOLE_SESSION_TTL_S is drawn from 0..MaxSessionTtl
SessionCap == 2          \* length the history is trimmed to (200 in main.py:1169, scaled)

Vms == {"vm1", "vm2"}
NoVm == "none"

\* Host.address of a registered host.
HostAddress(h) == IF h = "h1" THEN "10.0.0.1" ELSE "10.0.0.2"

\* What urlparse yields when the display URI has no host or no port.
NoneHost == "None"
NonePort == 0

\* Display URIs printed by virsh domdisplay, as urlparse splits them:
\* <<scheme, hostname, port>>.
DisplayUris == {<<"vnc", "127.0.0.1", 5900>>, <<"vnc", "10.0.0.9", 5901>>}

\* NOVNC_BASE_URL and NOVNC_WS_BASE with their defaults.
NOVNC_BASE_URL == "/console/noVNC/viewer"
NOVNC_WS_BASE == "/console/noVNC/websockify"

\* The n-th value of uuid4(): every draw is a value never seen before.
Uuid(n) == <<"uuid", n>>

\* datetime.isoformat() and datetime.fromisoformat(...).timestamp().
isoformat(ts) == <<"iso", ts>>
timestamp(s) == IF Len(s) = 2 /\ s[1] = "iso" THEN s[2] ELSE 0

\* f"{base}?{urlencode(query)}": the base and the ordered parameters.
Url(base, query) == <<base, "?", query>>
EmptyUrl == <<>>

_display_host_port(display_uri) ==
    IF display_uri[2] # "" /\ display_uri[3] # 0
    THEN <<display_uri[2], display_uri[3]>>
    ELSE <<NoneHost, NonePort>>

Loopbacks == {NoneHost, "127.0.0.1", "::1", "localhost"}

build_console_urls(host_id, vm_id, host_address, display_uri, u) ==
    LET ticket == Uuid(u)
        hp == _display_host_port(display_uri)
        display_host == hp[1]
        display_port == hp[2]
        effective_host == IF display_host \in Loopbacks THEN host_address
                          ELSE display_host
        resolved == effective_host # "" /\ display_port # NonePort
        base_q == <<<<"host_id", host_id>>, <<"vm_id", vm_id>>, <<"ticket", ticket>>>>
        ws_query == IF resolved
                    THEN base_q \o <<<<"vnc_host", effective_host>>,
                                     <<"vnc_port", ToString(display_port)>>>>
                    ELSE base_q
        ws_url == Url(NOVNC_WS_BASE, ws_query)
        viewer_q == base_q \o <<<<"path", ws_url>>, <<"autoconnect", "1">>,
                                <<"resize", "remote">>>>
        viewer_query == IF resolved
                        THEN viewer_q \o <<<<"host", effective_host>>,
                                           <<"port", ToString(display_port)>>>>
                        ELSE viewer_q
    IN  [ticket    |-> ticket,
         novnc_url |-> Url(NOVNC_BASE_URL, viewer_query),
         vnc_host  |-> effective_host,
         vnc_port  |-> IF display_port = NonePort THEN ""
                       ELSE ToString(display_port)]

\* Is the item a session of (host_id, vm_id) that a request at now_ts
\* may return again?  (main.py:1132-1139)
Reusable(item, host_id, vm_id, now_ts) ==
    /\ item.host_id = host_id
    /\ item.vm_id = vm_id
    /\ (now_ts - timestamp(item.created_at)) <= CONSOLE_SESSION_TTL_S
    /\ item.novnc_url # EmptyUrl

\* Mutant of FirstReusable: the history is not consulted.
FirstReusableNone(sessions, host_id, vm_id, now_ts) == 0

\* Index of the item the loop over the history returns, 0 if it runs to
\* its end.
FirstReusable(sessions, host_id, vm_id, now_ts) ==
    LET I == {i \in DOMAIN sessions : Reusable(sessions[i], host_id, vm_id, now_ts)}
    IN  IF I = {} THEN 0 ELSE CHOOSE i \in I : \A j \in I : i <= j

\* Mutant of InsertTrimmed: the trim drops from the front, so the newest
\* entries go and the oldest stay.
InsertTrimmedDropsNewest(sessions, session) ==
    LET s == <<session>> \o sessions
    IN  IF Len(s) > SessionCap THEN SubSeq(s, Len(s) - SessionCap + 1, Len(s)) ELSE s

\* CONSOLE_SESSIONS.insert(0, session); del CONSOLE_SESSIONS[200:]
InsertTrimmed(sessions, session) ==
    LET s == <<session>> \o sessions
    IN  IF Len(s) > SessionCap THEN SubSeq(s, 1, SessionCap) ELSE s

IdleCReq == [pc |-> "idle", host_id |-> NoHost, vm_id |-> NoVm]

NoCResp == [status |-> 0, path |-> "none", host_id |-> NoHost, vm_id |-> NoVm,
            ticket |-> Null, noVNC_url |-> Null]

\* ConsoleTicketResponse built from an item of the history or from a new
\* session.
TicketResponse(path, item) ==
    [status |-> 200, path |-> path, host_id |-> item.host_id,
     vm_id |-> item.vm_id, ticket |-> item.ticket, noVNC_url |-> item.novnc_url]

\* What a caller has been handed.
Handed(item) ==
    [host_id |-> item.host_id, vm_id |-> item.vm_id, ticket |-> item.ticket,
     created_ts |-> timestamp(item.created_at)]

\* Sessions minted so far and requests that may still mint one.
Minted == (nextUuid - 1) \div 2
LookingUp == {t \in Threads : creq[t].pc = "lookup"}

\* vm_console up to the display lookup: the host is found, the clock is
\* read and the history is scanned; a reusable session is returned as is.
VmConsoleScan(t, host_id, vm_id) ==
    /\ creq[t].pc = "idle"
    /\ host_id \in registered
    /\ LET i == FirstReusable(CONSOLE_SESSIONS, host_id, vm_id, now)
       IN  IF i # 0
           THEN /\ cresp' = TicketResponse("existing", CONSOLE_SESSIONS[i])
                /\ issued' = issued \cup {Handed(CONSOLE_SESSIONS[i])}
                /\ UNCHANGED creq
           ELSE /\ Minted + Cardinality(LookingUp) < MaxMint
                /\ creq' = [creq EXCEPT ![t] = [pc |-> "lookup", host_id |-> host_id,
                                                vm_id |-> vm_id]]
                /\ cresp' = NoCResp
                /\ UNCHANGED issued
    /\ UNCHANGED <<CONSOLE_SESSION_TTL_S, CONSOLE_SESSIONS, nextUuid>>
    /\ UNCHANGED <<now, execVars, cacheVars, agentVars, mapperVars, writeVars>>

\* The display lookup returned: the URLs are composed with a new ticket,
\* the session is put at the front of the history, the history is trimmed
\* and the response is returned.
VmConsoleIssue(t, display_uri) ==
    /\ creq[t].pc = "lookup"
    /\ LET host_id == creq[t].host_id
           vm_id == creq[t].vm_id
           built == build_console_urls(host_id, vm_id, HostAddress(host_id),
                                       display_uri, nextUuid)
           session == [session_id  |-> Uuid(nextUuid + 1),
                       host_id     |-> host_id,
                       vm_id       |-> vm_id,
                       ticket      |-> built.ticket,
                       novnc_url   |-> built.novnc_url,
                       display_uri |-> display_uri,
                       vnc_host    |-> built.vnc_host,
                       vnc_port    |-> built.vnc_port,
                       created_at  |-> isoformat(now)]
       IN  /\ CONSOLE_SESSIONS' = InsertTrimmed(CONSOLE_SESSIONS, session)
           /\ cresp' = TicketResponse("minted", session)
           /\ issued' = issued \cup {Handed(session)}
    /\ nextUuid' = nextUuid + 2
    /\ creq' = [creq EXCEPT ![t] = IdleCReq]
    /\ UNCHANGED CONSOLE_SESSION_TTL_S
    /\ UNCHANGED <<now, execVars, cacheVars, agentVars, mapperVars, writeVars>>

\* Mutant of VmConsoleFail: the session is put into the history before the
\* display lookup, so a failed lookup leaves it there.
VmConsoleFailKeepsSession(t) ==
    /\ creq[t].pc = "lookup"
    /\ cresp' = [NoCResp EXCEPT !.status = 502, !.path = "raised",
                                !.host_id = creq[t].host_id, !.vm_id = creq[t].vm_id]
    /\ creq' = [creq EXCEPT ![t] = IdleCReq]
    /\ CONSOLE_SESSIONS' =
          InsertTrimmed(CONSOLE_SESSIONS,
                        [session_id  |-> Uuid(nextUuid + 1),
                         host_id     |-> creq[t].host_id,
                         vm_id       |-> creq[t].vm_id,
                         ticket      |-> Uuid(nextUuid),
                         novnc_url   |-> EmptyUrl,
                         display_uri |-> <<>>,
                         vnc_host    |-> "",
                         vnc_port    |-> "",
                         created_at  |-> isoformat(now)])
    /\ UNCHANGED <<CONSOLE_SESSION_TTL_S, nextUuid, issued>>
    /\ UNCHANGED <<now, execVars, cacheVars, agentVars, mapperVars, writeVars>>

\* The display lookup failed: the request ends with status 502 and the
\* history is left alone.
VmConsoleFail(t) ==
    /\ creq[t].pc = "lookup"
    /\ cresp' = [NoCResp EXCEPT !.status = 502, !.path = "raised",
                                !.host_id = creq[t].host_id, !.vm_id = creq[t].vm_id]
    /\ creq' = [creq EXCEPT ![t] = IdleCReq]
    /\ UNCHANGED <<CONSOLE_SESSION_TTL_S, CONSOLE_SESSIONS, nextUuid, issued>>
    /\ UNCHANGED <<now, execVars, cacheVars, agentVars, mapperVars, writeVars>>

\* The broker before any request, with the configured session TTL.
ConsoleStart(ttl) ==
    /\ CONSOLE_SESSION_TTL_S = ttl
    /\ CONSOLE_SESSIONS = <<>>
    /\ nextUuid = 1
    /\ creq = [t \in Threads |-> IdleCReq]
    /\ cresp = NoCResp
    /\ issued = {}

(***************************************************************************)
(* Agent VM store: power actions (agent/app/routes.py, simulated mode)     *)
(***************************************************************************)

MaxActions == 3          \* power actions applied in one behaviour

AgentVmIds == {"a1", "a2"}
PowerStates == {"running", "stopped", "paused"}

\* class VMAction
VMActions == {"start", "stop", "reboot", "pause", "resume"}

\* state.vms.get(vm_id) is None
AbsentVm == [present |-> FALSE, power_state |-> "none"]

NoAResp == [status |-> 0, vm_id |-> NoVm, power_state |-> "none"]

\* Mutant of PowerAfter: resume is applied to a paused VM only.
PowerAfterResumeChecked(prior, action) ==
    CASE action = "start"  -> "running"
      [] action = "stop"   -> "stopped"
      [] action = "reboot" -> "running"
      [] action = "pause"  -> "paused"
      [] action = "resume" -> IF prior = "paused" THEN "running" ELSE prior
      [] OTHER             -> prior

\* routes.py:174-183: the if/elif chain over payload.action.
PowerAfter(prior, action) ==
    CASE action = "start"  -> "running"
      [] action = "stop"   -> "stopped"
      [] action = "reboot" -> "running"
      [] action = "pause"  -> "paused"
      [] action = "resume" -> "running"
      [] OTHER             -> prior

\* feature_smoke.py:44: the power state the fake libvirt call sets.
FakePowerAfter(action) ==
    IF action \in {"start", "resume", "reboot"} THEN "running"
    ELSE IF action = "pause" THEN "paused" ELSE "stopped"

\* LibvirtRemote.vm_action: the virsh subcommand of an action.
VirshSubcommand(action) ==
    CASE action = "start"  -> "start"
      [] action = "stop"   -> "shutdown"
      [] action = "reboot" -> "reboot"
      [] action = "pause"  -> "suspend"
      [] action = "resume" -> "resume"

\* Power actions applied so far, over the VMs in S; trail[v] starts with the
\* power state the VM was stored with.
RECURSIVE ActionsAppliedTo(_)
ActionsAppliedTo(S) ==
    IF S = {} THEN 0
    ELSE LET v == CHOOSE x \in S : TRUE
         IN  (IF trail[v] = <<>> THEN 0 ELSE Len(trail[v]) - 1)
                + ActionsAppliedTo(S \ {v})

ActionsApplied == ActionsAppliedTo(AgentVmIds)

NetworkIds == {"n1", "n2"}
SnapshotIds == {"s1"}

MaxNets == 2             \* entries of the networks list of an imported VM

\* The networks lists an import payload may carry: any strings, repeated or not.
NetLists == UNION {[1..k -> NetworkIds] : k \in 0..MaxNets}

\* vm_id not in state.snapshots
NoSnapshots == [present |-> FALSE, ids |-> {}]

\* state.snapshots[vm_id] = {}
EmptySnapshots == [present |-> TRUE, ids |-> {}]

\* [attached_id for attached_id in vm.networks if attached_id != network_id]
Detached(nets, n) == SelectSeq(nets, LAMBDA attached_id : attached_id # n)

\* network_id in vm.networks
Attached(nets, n) == \E i \in 1..Len(nets) : nets[i] = n

\* create_vm (routes.py:83-100): a VM under a new id, stopped, with no
\* networks and an empty snapshot map.
AgentCreateVm(v) ==
    /\ agent_vms[v] = AbsentVm
    /\ agent_vms' = [agent_vms EXCEPT ![v] = [present |-> TRUE, power_state |-> "stopped"]]
    /\ vm_networks' = [vm_networks EXCEPT ![v] = <<>>]
    /\ agent_snapshots' = [agent_snapshots EXCEPT ![v] = EmptySnapshots]
    /\ trail' = [trail EXCEPT ![v] = <<"stopped">>]
    /\ aresp' = [status |-> 200, vm_id |-> v, power_state |-> "stopped"]
    /\ UNCHANGED <<agent_networks, pushVars>>
    /\ UNCHANGED <<now, execVars, cacheVars, consoleVars, mapperVars, writeVars>>

\* import_vm (routes.py:110-118): a VM record stored as given, its networks
\* list included, with an empty snapshot map; 409 when the id is taken.
AgentImportVm(v, p, nets) ==
    /\ IF agent_vms[v] # AbsentVm
       THEN /\ aresp' = [status |-> 409, vm_id |-> v, power_state |-> "none"]
            /\ UNCHANGED <<agent_vms, trail, vm_networks, agent_snapshots>>
       ELSE /\ agent_vms' = [agent_vms EXCEPT ![v] = [present |-> TRUE, power_state |-> p]]
            /\ vm_networks' = [vm_networks EXCEPT ![v] = nets]
            /\ agent_snapshots' = [agent_snapshots EXCEPT ![v] = EmptySnapshots]
            /\ trail' = [trail EXCEPT ![v] = <<p>>]
            /\ aresp' = [status |-> 200, vm_id |-> v, power_state |-> p]
    /\ UNCHANGED <<agent_networks, pushVars>>
    /\ UNCHANGED <<now, execVars, cacheVars, consoleVars, mapperVars, writeVars>>

\* vm_action (routes.py:158-186), simulated mode: 404 for an unknown id,
\* otherwise the power state is set from the action alone.
AgentVmAction(v, action) ==
    /\ IF agent_vms[v] = AbsentVm
       THEN /\ aresp' = [status |-> 404, vm_id |-> v, power_state |-> "none"]
            /\ UNCHANGED <<agent_vms, trail>>
       ELSE /\ ActionsApplied < MaxActions
            /\ LET p == PowerAfter(agent_vms[v].power_state, action)
               IN  /\ agent_vms' = [agent_vms EXCEPT ![v].power_state = p]
                   /\ aresp' = [status |-> 200, vm_id |-> v, power_state |-> p]
            /\ trail' = [trail EXCEPT ![v] = Append(@, action)]
    /\ UNCHANGED <<storeVars, pushVars>>
    /\ UNCHANGED <<now, execVars, cacheVars, consoleVars, mapperVars, writeVars>>

\* clone_vm (routes.py:122-143): 404 for an unknown source; otherwise a VM
\* under a new id, stopped, with a copy of the source's networks list and an
\* empty snapshot map.
AgentCloneVm(v, c) ==
    /\ IF agent_vms[v] = AbsentVm
       THEN /\ aresp' = [status |-> 404, vm_id |-> v, power_state |-> "none"]
            /\ UNCHANGED <<agent_vms, trail, vm_networks, agent_snapshots>>
       ELSE /\ agent_vms[c] = AbsentVm
            /\ agent_vms' = [agent_vms EXCEPT ![c] = [present |-> TRUE, power_state |-> "stopped"]]
            /\ vm_networks' = [vm_networks EXCEPT ![c] = vm_networks[v]]
            /\ agent_snapshots' = [agent_snapshots EXCEPT ![c] = EmptySnapshots]
            /\ trail' = [trail EXCEPT ![c] = <<"stopped">>]
            /\ aresp' = [status |-> 200, vm_id |-> c, power_state |-> "stopped"]
    /\ UNCHANGED <<agent_networks, pushVars>>
    /\ UNCHANGED <<now, execVars, cacheVars, consoleVars, mapperVars, writeVars>>

\* delete_vm (routes.py:208-223), simulated mode: 404 for an unknown id,
\* otherwise the record and the VM's snapshot map are removed.
AgentDeleteVm(v) ==
    /\ IF agent_vms[v] = AbsentVm
       THEN /\ aresp' = [status |-> 404, vm_id |-> v, power_state |-> "none"]
            /\ UNCHANGED <<agent_vms, trail, vm_networks, agent_snapshots>>
       ELSE /\ agent_vms' = [agent_vms EXCEPT ![v] = AbsentVm]
            /\ vm_networks' = [vm_networks EXCEPT ![v] = <<>>]
            /\ agent_snapshots' = [agent_snapshots EXCEPT ![v] = NoSnapshots]
            /\ trail' = [trail EXCEPT ![v] = <<>>]
            /\ aresp' = [status |-> 200, vm_id |-> v, power_state |-> "none"]
    /\ UNCHANGED <<agent_networks, pushVars>>
    /\ UNCHANGED <<now, execVars, cacheVars, consoleVars, mapperVars, writeVars>>

\* create_snapshot (routes.py:225-248), simulated mode: 404 for an unknown
\* VM, otherwise a snapshot under a new id in the VM's map (setdefault).
AgentCreateSnapshot(v, sn) ==
    /\ IF agent_vms[v] = AbsentVm
       THEN /\ aresp' = [status |-> 404, vm_id |-> v, power_state |-> "none"]
            /\ UNCHANGED agent_snapshots
       ELSE /\ sn \notin agent_snapshots[v].ids
            /\ agent_snapshots' = [agent_snapshots EXCEPT ![v] =
                                      [present |-> TRUE, ids |-> @.ids \cup {sn}]]
            /\ aresp' = [status |-> 200, vm_id |-> v,
                         power_state |-> agent_vms[v].power_state]
    /\ UNCHANGED <<agent_vms, trail, vm_networks, agent_networks, pushVars>>
    /\ UNCHANGED <<now, execVars, cacheVars, consoleVars, mapperVars, writeVars>>

\* delete_snapshot (routes.py:288-306), simulated mode: 404 for an unknown
\* VM or snapshot, otherwise the snapshot leaves the VM's map.
AgentDeleteSnapshot(v, sn) ==
    /\ IF agent_vms[v] = AbsentVm \/ sn \notin agent_snapshots[v].ids
       THEN /\ aresp' = [status |-> 404, vm_id |-> v, power_state |-> "none"]
            /\ UNCHANGED agent_snapshots
       ELSE /\ agent_snapshots' = [agent_snapshots EXCEPT ![v].ids = @ \ {sn}]
            /\ aresp' = [status |-> 200, vm_id |-> v, power_state |-> "none"]
    /\ UNCHANGED <<agent_vms, trail, vm_networks, agent_networks, pushVars>>
    /\ UNCHANGED <<now, execVars, cacheVars, consoleVars, mapperVars, writeVars>>

\* create_network (routes.py:342-353): a network under a new id.
AgentCreateNetwork(n) ==
    /\ n \notin agent_networks
    /\ agent_networks' = agent_networks \cup {n}
    /\ aresp' = [status |-> 200, vm_id |-> NoVm, power_state |-> "none"]
    /\ UNCHANGED <<agent_vms, trail, vm_networks, agent_snapshots, pushVars>>
    /\ UNCHANGED <<now, execVars, cacheVars, consoleVars, mapperVars, writeVars>>

\* attach_network (routes.py:355-370): 404 for an unknown network or VM,
\* otherwise the id is appended unless the list holds it already.
AgentAttachNetwork(n, v) ==
    /\ IF n \notin agent_networks \/ agent_vms[v] = AbsentVm
       THEN /\ aresp' = [status |-> 404, vm_id |-> v, power_state |-> "none"]
            /\ UNCHANGED vm_networks
       ELSE /\ vm_networks' = [vm_networks EXCEPT ![v] =
                                  IF Attached(@, n) THEN @ ELSE Append(@, n)]
            /\ aresp' = [status |-> 200, vm_id |-> v, power_state |-> "none"]
    /\ UNCHANGED <<agent_vms, trail, agent_networks, agent_snapshots, pushVars>>
    /\ UNCHANGED <<now, execVars, cacheVars, consoleVars, mapperVars, writeVars>>

\* detach_network (routes.py:372-386): 404 for an unknown network or VM,
\* otherwise every occurrence of the id leaves the list.
AgentDetachNetwork(n, v) ==
    /\ IF n \notin agent_networks \/ agent_vms[v] = AbsentVm
       THEN /\ aresp' = [status |-> 404, vm_id |-> v, power_state |-> "none"]
            /\ UNCHANGED vm_networks
       ELSE /\ vm_networks' = [vm_networks EXCEPT ![v] = Detached(@, n)]
            /\ aresp' = [status |-> 200, vm_id |-> v, power_state |-> "none"]
    /\ UNCHANGED <<agent_vms, trail, agent_networks, agent_snapshots, pushVars>>
    /\ UNCHANGED <<now, execVars, cacheVars, consoleVars, mapperVars, writeVars>>

\* delete_network (routes.py:388-402): 404 for an unknown network, otherwise
\* the id leaves every VM's list and the network is removed.
AgentDeleteNetwork(n) ==
    /\ IF n \notin agent_networks
       THEN /\ aresp' = [status |-> 404, vm_id |-> NoVm, power_state |-> "none"]
            /\ UNCHANGED <<vm_networks, agent_networks>>
       ELSE /\ vm_networks' = [v \in AgentVmIds |-> Detached(vm_networks[v], n)]
            /\ agent_networks' = agent_networks \ {n}
            /\ aresp' = [status |-> 200, vm_id |-> NoVm, power_state |-> "none"]
    /\ UNCHANGED <<agent_vms, trail, agent_snapshots, pushVars>>
    /\ UNCHANGED <<now, execVars, cacheVars, consoleVars, mapperVars, writeVars>>

(***************************************************************************)
(* Agent push state: push_to_dashboard, heartbeat_loop, push_now           *)
(***************************************************************************)

MaxPushes == 3           \* pushes begun in one behaviour

\* The heartbeat thread and a push-now request; each runs push_to_dashboard
\* inside its own try/except.
Pushers == {"heartbeat_loop", "push_now"}

\* str(exc) of the RequestException raised by register and by send_heartbeat.
RegisterError == <<"register">>
HeartbeatError == <<"heartbeat">>

\* A pusher outside push_to_dashboard.
IdlePush == [pc |-> "idle", exc |-> Null]

\* AgentState.__init__ (state.py:8-11)
FreshAgentState == [last_push_at |-> Null, last_push_ok |-> FALSE,
                    last_error |-> Null, push_count |-> 0]

\* The heartbeat loop enters its try (services.py:65-66) or a push-now
\* request arrives (routes.py:62-63); detect_cpu_memory touches no state.
PushBegin(p) ==
    /\ push[p].pc = "idle"
    /\ tally.begun < MaxPushes
    /\ push' = [push EXCEPT ![p].pc = "register"]
    /\ tally' = [tally EXCEPT !.begun = @ + 1]
    /\ UNCHANGED <<agent_state, agent_vms, trail, aresp, storeVars>>
    /\ UNCHANGED <<now, execVars, cacheVars, consoleVars, mapperVars, writeVars>>

\* register (services.py:26-37, 53) returns.
RegisterReturns(p) ==
    /\ push[p].pc = "register"
    /\ push' = [push EXCEPT ![p].pc = "heartbeat"]
    /\ UNCHANGED <<agent_state, tally, agent_vms, trail, aresp, storeVars>>
    /\ UNCHANGED <<now, execVars, cacheVars, consoleVars, mapperVars, writeVars>>

\* register raises a RequestException: control leaves push_to_dashboard for
\* the caller's except clause.
RegisterRaises(p) ==
    /\ push[p].pc = "register"
    /\ push' = [push EXCEPT ![p] = [pc |-> "except", exc |-> RegisterError]]
    /\ UNCHANGED <<agent_state, tally, agent_vms, trail, aresp, storeVars>>
    /\ UNCHANGED <<now, execVars, cacheVars, consoleVars, mapperVars, writeVars>>

\* send_heartbeat (services.py:40-48, 54) returns: both requests of this
\* push have succeeded.
HeartbeatReturns(p) ==
    /\ push[p].pc = "heartbeat"
    /\ push' = [push EXCEPT ![p].pc = "record"]
    /\ tally' = [tally EXCEPT !.succeeded = @ + 1]
    /\ UNCHANGED <<agent_state, agent_vms, trail, aresp, storeVars>>
    /\ UNCHANGED <<now, execVars, cacheVars, consoleVars, mapperVars, writeVars>>

\* send_heartbeat raises a RequestException.
HeartbeatRaises(p) ==
    /\ push[p].pc = "heartbeat"
    /\ push' = [push EXCEPT ![p] = [pc |-> "except", exc |-> HeartbeatError]]
    /\ UNCHANGED <<agent_state, tally, agent_vms, trail, aresp, storeVars>>
    /\ UNCHANGED <<now, execVars, cacheVars, consoleVars, mapperVars, writeVars>>

\* Mutant of RecordSuccess: the success block leaves last_error as it was.
RecordSuccessKeepsError(p) ==
    /\ push[p].pc = "record"
    /\ agent_state' = [agent_state EXCEPT !.last_push_ok = TRUE,
                                          !.push_count = @ + 1,
                                          !.last_push_at = <<now>>]
    /\ push' = [push EXCEPT ![p] = IdlePush]
    /\ UNCHANGED <<tally, agent_vms, trail, aresp, storeVars>>
    /\ UNCHANGED <<now, execVars, cacheVars, consoleVars, mapperVars, writeVars>>

\* push_to_dashboard, lines 56-60: the block under state.lock.
RecordSuccess(p) ==
    /\ push[p].pc = "record"
    /\ agent_state' = [agent_state EXCEPT !.last_push_ok = TRUE,
                                          !.last_error = Null,
                                          !.push_count = @ + 1,
                                          !.last_push_at = <<now>>]
    /\ push' = [push EXCEPT ![p] = IdlePush]
    /\ UNCHANGED <<tally, agent_vms, trail, aresp, storeVars>>
    /\ UNCHANGED <<now, execVars, cacheVars, consoleVars, mapperVars, writeVars>>

\* The except clause of heartbeat_loop (services.py:68-72) and of push_now
\* (routes.py:64-68): the block under state.lock.
RecordFailure(p) ==
    /\ push[p].pc = "except"
    /\ agent_state' = [agent_state EXCEPT !.last_push_ok = FALSE,
                                          !.last_error = push[p].exc,
                                          !.last_push_at = <<now>>]
    /\ push' = [push EXCEPT ![p] = IdlePush]
    /\ UNCHANGED <<tally, agent_vms, trail, aresp, storeVars>>
    /\ UNCHANGED <<now, execVars, cacheVars, consoleVars, mapperVars, writeVars>>

\* The agent with an empty store and no push made.
AgentStart ==
    /\ agent_vms = [v \in AgentVmIds |-> AbsentVm]
    /\ trail = [v \in AgentVmIds |-> <<>>]
    /\ aresp = NoAResp
    /\ agent_networks = {}
    /\ vm_networks = [v \in AgentVmIds |-> <<>>]
    /\ agent_snapshots = [v \in AgentVmIds |-> NoSnapshots]
    /\ agent_state = FreshAgentState
    /\ push = [p \in Pushers |-> IdlePush]
    /\ tally = [begun |-> 0, succeeded |-> 0]

(***************************************************************************)
(* Domain Mapper: LibvirtRemote._disk_source_from_image                    *)
(***************************************************************************)

MaxLen == 5              \* characters of an image reference

\* The characters an image reference is written with: the path separator,
\* the colon, a name character and a blank.  A string is a sequence of them.
Chars == {"/", ":", "a", " "}

ImageRefs == UNION {[1..n -> Chars] : n \in 0..MaxLen}

\* self.default_pool
DefaultPool == <<"d", "e", "f">>

\* str.strip()
RECURSIVE lstrip(_)
lstrip(s) == IF s # <<>> /\ s[1] = " " THEN lstrip(Tail(s)) ELSE s

RECURSIVE rstrip(_)
rstrip(s) == IF s # <<>> /\ s[Len(s)] = " " THEN rstrip(SubSeq(s, 1, Len(s) - 1)) ELSE s

strip(s) == rstrip(lstrip(s))

\* Positions where "::" starts in s.
SepAt(s) == {i \in 1..(Len(s) - 1) : s[i] = ":" /\ s[i + 1] = ":"}

\* "::" in s
HasSep(s) == SepAt(s) # {}

\* s.partition("::"), for s with "::": the text before the first "::" and
\* the text after it.
partition(s) ==
    LET i == CHOOSE k \in SepAt(s) : \A j \in SepAt(s) : k <= j
    IN  <<SubSeq(s, 1, i - 1), SubSeq(s, i + 2, Len(s))>>

\* s.startswith("/")
startswith_slash(s) == s # <<>> /\ s[1] = "/"

NoLookup == [vol |-> <<>>, pool |-> <<>>]

\* _disk_source_from_image up to its return or its vol-path call
\* (libvirt_remote.py:117-131).
DiskPlan(image) ==
    LET s == strip(image) IN
    IF s = <<>> THEN [kind |-> "value", value |-> <<>>, lookup |-> NoLookup]
    ELSE IF HasSep(s) /\ partition(s)[1] # <<>> /\ partition(s)[2] # <<>>
         THEN [kind |-> "lookup", value |-> <<>>,
               lookup |-> [vol |-> partition(s)[2], pool |-> partition(s)[1]]]
    ELSE IF startswith_slash(s)
         THEN [kind |-> "value", value |-> s, lookup |-> NoLookup]
    ELSE [kind |-> "lookup", value |-> <<>>,
          lookup |-> [vol |-> s, pool |-> DefaultPool]]

\* What virsh vol-path prints for a volume of a pool.
VolPath(vol, pool) == <<"/">> \o pool \o <<"/">> \o vol

\* No call of _disk_source_from_image in progress or finished.
IdleDisk == [pc |-> "idle", image |-> <<>>, lookup |-> NoLookup,
             lookups |-> 0, result |-> <<>>]

\* _disk_source_from_image(image) is called and runs to its return or to
\* its vol-path call.
DiskBegin(image) ==
    /\ disk.pc = "idle"
    /\ LET plan == DiskPlan(image)
       IN  disk' = [pc      |-> IF plan.kind = "lookup" THEN "lookup" ELSE "done",
                    image   |-> image,
                    lookup  |-> plan.lookup,
                    lookups |-> IF plan.kind = "lookup" THEN 1 ELSE 0,
                    result  |-> plan.value]
    /\ UNCHANGED <<now, execVars, cacheVars, consoleVars, agentVars, mop, info, power, writeVars>>

\* The vol-path call returns the path of the volume.
VolPathReturns ==
    /\ disk.pc = "lookup"
    /\ disk' = [disk EXCEPT !.pc = "done",
                            !.result = VolPath(disk.lookup.vol, disk.lookup.pool)]
    /\ UNCHANGED <<now, execVars, cacheVars, consoleVars, agentVars, mop, info, power, writeVars>>

\* The vol-path call raises LibvirtRemoteError: no disk.
VolPathFails ==
    /\ disk.pc = "lookup"
    /\ disk' = [disk EXCEPT !.pc = "done", !.result = <<>>]
    /\ UNCHANGED <<now, execVars, cacheVars, consoleVars, agentVars, mop, info, power, writeVars>>

\* The caller has the result; the next call can start.
DiskReturn ==
    /\ disk.pc = "done"
    /\ disk' = IdleDisk
    /\ UNCHANGED <<now, execVars, cacheVars, consoleVars, agentVars, mop, info, power, writeVars>>

(***************************************************************************)
(* Domain Mapper: the methods of LibvirtRemote over _run                   *)
(***************************************************************************)

\* The request thread that runs the method, and the uri of its host.
MapperThread == 1
MapperUri == "qemu+ssh://hA/system"

\* The methods that change the hypervisor and console_info, which serves a
\* console session request (main.py:1147).
WriteOps == {"create_vm", "delete_vm", "resize", "snapshot_create",
             "snapshot_revert", "snapshot_delete", "create_network",
             "delete_network", "create_image", "delete_image", "console_info"}

\* The listing methods.
ListOps == {"list_vms", "list_storage_pools"}

\* Image references given to create_vm: empty, absolute path, bare name,
\* pool::volume.
CreateImages == {<<>>, <<"/", "a">>, <<"a">>, <<"a", ":", ":", "a">>}

\* The arguments a method is called with: an image reference for create_vm,
\* nothing for the listings, the name of the object otherwise.
OpArgs(op) ==
    IF op = "create_vm" THEN CreateImages
    ELSE IF op \in ListOps THEN {<<>>}
    ELSE {<<"vm1">>}

\* What virsh list --all --name can print: the domains of the host.
NameLists == {<<>>, <<"vm1">>, <<"vm1", "vm2">>}

\* What virsh pool-list --all --name can print: the pools of the host.
PoolLists == {<<"p1">>, <<"p1", "p2">>}

\* The volumes virsh vol-list prints for a pool.
VolsOf(pool) == IF pool = "p1" THEN <<"vol1">> ELSE <<"vol2">>

\* The base name of the disk source virsh domblklist prints for a domain.
BlkOf(vm) == IF vm = "vm1" THEN <<"vol1">> ELSE <<"vol2">>

\* The network names virsh domiflist prints for a domain.
IfacesOf(vm) == <<"default">>

\* One self._run(args) call of a method: the virsh subcommand, what it is
\* applied to, and whether the method catches its LibvirtRemoteError.
Step(cmd, arg, soft) == [cmd |-> cmd, arg |-> arg, soft |-> soft]

\* No method in progress.
IdleOp == [pc |-> "idle", op |-> "none", arg |-> <<>>, todo |-> <<>>,
           log |-> <<>>, outcome |-> "none", failed |-> "none", value |-> <<>>]

\* The flat argument of vol-path vol --pool pool.
VolArg(vol, pool) == vol \o <<"--pool">> \o pool

\* Mutant of ResizePlan: the memory ceiling is set before the vCPUs.
ResizePlanMemoryFirst(arg) ==
    <<Step("setmaxmem", arg, FALSE), Step("setvcpus", arg, FALSE),
      Step("setmem", arg, FALSE)>>

\* resize, lines 203-206: three _run calls, none in a try block.
ResizePlan(arg) ==
    <<Step("setvcpus", arg, FALSE), Step("setmaxmem", arg, FALSE),
      Step("setmem", arg, FALSE)>>

\* The _run calls a method makes from its entry up to the first call whose
\* result decides what comes next.
OpPlan(op, arg) ==
    CASE op = "create_vm" ->
            IF DiskPlan(arg).kind = "lookup"
            THEN <<Step("vol-path", VolArg(DiskPlan(arg).lookup.vol,
                                           DiskPlan(arg).lookup.pool), TRUE)>>
            ELSE <<Step("define", DiskPlan(arg).value, FALSE)>>
      [] op = "delete_vm" ->
            <<Step("destroy", arg, TRUE), Step("undefine", arg, FALSE)>>
      [] op = "resize" -> ResizePlan(arg)
      [] op = "snapshot_create" -> <<Step("snapshot-create-as", arg, FALSE)>>
      [] op = "snapshot_revert" -> <<Step("snapshot-revert", arg, FALSE)>>
      [] op = "snapshot_delete" -> <<Step("snapshot-delete", arg, FALSE)>>
      [] op = "create_network" ->
            <<Step("net-define", arg, FALSE), Step("net-autostart", arg, FALSE),
              Step("net-start", arg, FALSE)>>
      [] op = "delete_network" ->
            <<Step("net-destroy", arg, TRUE), Step("net-undefine", arg, FALSE)>>
      [] op = "create_image" -> <<Step("vol-create-as", arg, FALSE)>>
      [] op = "delete_image" -> <<Step("vol-delete", arg, FALSE)>>
      [] op = "console_info" -> <<Step("domdisplay", arg, FALSE)>>
      [] op = "list_vms" -> <<Step("list", <<>>, FALSE)>>
      [] op = "list_storage_pools" -> <<Step("pool-list", <<>>, FALSE)>>

\* What a _run call that succeeded can have returned, parsed as the method
\* parses it.
Outputs(op, arg, step) ==
    CASE step.cmd = "list" -> NameLists
      [] step.cmd = "pool-list" -> PoolLists
      [] step.cmd = "vol-list" -> {VolsOf(step.arg[1])}
      [] step.cmd = "domblklist" -> {BlkOf(step.arg[1])}
      [] step.cmd = "domiflist" -> {IfacesOf(step.arg[1])}
      [] step.cmd = "vol-path" ->
            {VolPath(DiskPlan(arg).lookup.vol, DiskPlan(arg).lookup.pool)}
      [] OTHER -> {<<>>}

\* Mutant of PerVmDetail: domiflist is called outside a try block.
RECURSIVE PerVmDetailUnguarded(_)
PerVmDetailUnguarded(names) ==
    IF names = <<>> THEN <<>>
    ELSE <<Step("dominfo", <<Head(names)>>, FALSE),
           Step("domiflist", <<Head(names)>>, FALSE)>>
         \o PerVmDetailUnguarded(Tail(names))

\* list_vms, lines 77-90: per name, dominfo and then the guarded domiflist.
RECURSIVE PerVmDetail(_)
PerVmDetail(names) ==
    IF names = <<>> THEN <<>>
    ELSE <<Step("dominfo", <<Head(names)>>, FALSE),
           Step("domiflist", <<Head(names)>>, TRUE)>> \o PerVmDetail(Tail(names))

\* Mutant of PerVmBlocks: domblklist is called outside a try block.
RECURSIVE PerVmBlocksUnguarded(_)
PerVmBlocksUnguarded(names) ==
    IF names = <<>> THEN <<>>
    ELSE <<Step("domblklist", <<Head(names)>>, FALSE)>>
         \o PerVmBlocksUnguarded(Tail(names))

\* _volume_usage_map, lines 236-240: per name, the guarded domblklist.
RECURSIVE PerVmBlocks(_)
PerVmBlocks(names) ==
    IF names = <<>> THEN <<>>
    ELSE <<Step("domblklist", <<Head(names)>>, TRUE)>> \o PerVmBlocks(Tail(names))

\* list_storage_pools, lines 296-299: per pool, the guarded vol-list.
RECURSIVE PerPoolVolumes(_)
PerPoolVolumes(pools) ==
    IF pools = <<>> THEN <<>>
    ELSE <<Step("vol-list", <<Head(pools)>>, TRUE)>> \o PerPoolVolumes(Tail(pools))

\* list_storage_pools, lines 300-318: per volume of the pool, the guarded
\* vol-info.
RECURSIVE PerVolumeInfo(_, _)
PerVolumeInfo(vols, pool) ==
    IF vols = <<>> THEN <<>>
    ELSE <<Step("vol-info", <<Head(vols), pool>>, TRUE)>>
         \o PerVolumeInfo(Tail(vols), pool)

\* Mutant of DefineAfterLookup: without a disk source nothing is defined.
DefineOnlyWithDisk(ok, out) ==
    IF ok THEN <<Step("define", out, FALSE)>> ELSE <<>>

\* create_vm, lines 136-183, after _disk_source_from_image made its vol-path
\* call: the path found, or "" when the call failed (lines 124-125,
\* 132-133), goes into the descriptor that is defined.
DefineAfterLookup(ok, out) ==
    <<Step("define", IF ok THEN out ELSE <<>>, FALSE)>>

\* The _run calls that the result of a call puts before the rest of the
\* method: step has ended, ok or not, with output out, after the calls in log.
Expand(op, step, ok, out, log) ==
    CASE op = "create_vm" /\ step.cmd = "vol-path" -> DefineAfterLookup(ok, out)
      [] op = "list_vms" /\ step.cmd = "list" /\ ok -> PerVmDetail(out)
      [] op = "list_storage_pools" /\ step.cmd = "pool-list" /\ ok ->
            <<Step("list", <<>>, FALSE)>>
      [] op = "list_storage_pools" /\ step.cmd = "list" /\ ok ->
            PerVmBlocks(out) \o PerPoolVolumes(log[1].out)
      [] op = "list_storage_pools" /\ step.cmd = "vol-list" /\ ok ->
            PerVolumeInfo(out, step.arg[1])
      [] OTHER -> <<>>

\* The entries of log made by calls of subcommand cmd, in the order made.
CallsOf(log, cmd) ==
    LET Made(e) == e.cmd = cmd IN SelectSeq(log, Made)

\* list_vms, lines 84-103: one record per domain, with the interface names
\* found or, the domiflist call having failed, none.
VmRows(log) ==
    LET es == CallsOf(log, "domiflist")
    IN  [i \in 1..Len(es) |->
            [vm_id |-> es[i].arg[1],
             networks |-> IF es[i].ok THEN es[i].out ELSE <<>>]]

\* _volume_usage_map, lines 241-249: the domains whose block-device listing
\* names volume vol.
UsedBy(log, vol) ==
    {e.arg[1] : e \in {log[i] : i \in {j \in 1..Len(log) :
                                         /\ log[j].cmd = "domblklist"
                                         /\ log[j].ok
                                         /\ \E k \in 1..Len(log[j].out) :
                                               log[j].out[k] = vol}}}

\* list_storage_pools, lines 304-316: the size is read when vol-info works.
SizeKnown(log, vol, pool) ==
    \E i \in 1..Len(log) :
        log[i].cmd = "vol-info" /\ log[i].arg = <<vol, pool>> /\ log[i].ok

\* list_storage_pools, lines 295-321: one record per pool, with the volumes
\* listed or, the vol-list call having failed, none.
PoolRows(log) ==
    LET es == CallsOf(log, "vol-list")
    IN  [i \in 1..Len(es) |->
            [pool_id |-> es[i].arg[1],
             volumes |-> IF es[i].ok
                         THEN [k \in 1..Len(es[i].out) |->
                                  [name |-> es[i].out[k],
                                   used_by |-> UsedBy(log, es[i].out[k]),
                                   sized |-> SizeKnown(log, es[i].out[k],
                                                       es[i].arg[1])]]
                         ELSE <<>>]]

\* What the method returns after the calls in log.
OpValue(op, arg, log) ==
    CASE op = "create_vm" ->
            <<[vm_id |-> "vm1", disk_source |-> log[Len(log)].arg]>>
      [] op = "list_vms" -> VmRows(log)
      [] op = "list_storage_pools" -> PoolRows(log)
      [] OTHER -> <<>>

\* _libvirt_call (main.py:330-333): a LibvirtRemote is made for the host and
\* the method is entered.
OpBegin(op, arg) ==
    /\ mop.pc = "idle"
    /\ run[MapperThread].pc = "idle"
    /\ mop' = [IdleOp EXCEPT !.pc = "run", !.op = op, !.arg = arg,
                             !.todo = OpPlan(op, arg)]
    /\ UNCHANGED <<now, execVars, cacheVars, consoleVars, agentVars, disk, info, power, writeVars>>

\* The method reaches its next self._run(args).
OpIssue ==
    /\ mop.pc = "run"
    /\ Call(MapperThread, MapperUri, 8)

\* The processes one _run call started and the fork failures among them.
Spawns(outs) == Cardinality({i \in 1..Len(outs) : outs[i] # "not_found"})
Forks(outs) == Cardinality({i \in 1..Len(outs) : outs[i] = "fork"})

\* Mutant of Propagates: the method catches every LibvirtRemoteError.
PropagatesNever(step, ok) == FALSE

\* Mutant of Propagates: the method catches no LibvirtRemoteError.
PropagatesAlways(step, ok) == ~ok

\* The LibvirtRemoteError of a call outside a try block leaves the method
\* and _libvirt_call turns it into HTTP 502 (main.py:335-336).
Propagates(step, ok) == ~ok /\ ~step.soft

\* _run has returned or raised into the method, which goes on to its next
\* _run call, returns, or lets the failure through.
OpCollect ==
    /\ mop.pc = "run"
    /\ run[MapperThread].pc = "done"
    /\ LET step == Head(mop.todo)
           r == run[MapperThread]
           ok == r.result = "ok"
       IN  \E out \in (IF ok THEN Outputs(mop.op, mop.arg, step) ELSE {<<>>}) :
              LET entry == [cmd |-> step.cmd, arg |-> step.arg, soft |-> step.soft,
                            ok |-> ok, out |-> out,
                            spawns |-> Spawns(r.outs), forks |-> Forks(r.outs)]
                  log1 == Append(mop.log, entry)
                  todo1 == Expand(mop.op, step, ok, out, log1) \o Tail(mop.todo)
              IN  mop' = IF Propagates(step, ok)
                         THEN [mop EXCEPT !.pc = "done", !.todo = <<>>, !.log = log1,
                                          !.outcome = "raised", !.failed = step.cmd]
                         ELSE IF todo1 = <<>>
                         THEN [mop EXCEPT !.pc = "done", !.todo = <<>>, !.log = log1,
                                          !.outcome = "returned",
                                          !.value = OpValue(mop.op, mop.arg, log1)]
                         ELSE [mop EXCEPT !.todo = todo1, !.log = log1]
    /\ run' = [run EXCEPT ![MapperThread] = IdleRun]
    /\ UNCHANGED <<max_concurrency, retry_count, semaphores, cls_semaphore>>
    /\ UNCHANGED <<now, cacheVars, consoleVars, agentVars, disk, info, power, writeVars>>

\* The caller has the result of the method; the next request can start.
OpReturn ==
    /\ mop.pc = "done"
    /\ mop' = IdleOp
    /\ UNCHANGED <<now, execVars, cacheVars, consoleVars, agentVars, disk, info, power, writeVars>>


(***************************************************************************)
(* list_vms: the power state read from virsh dominfo                       *)
(* (dashboard/app/libvirt_remote.py, agent/app/libvirt_executor.py)        *)
(***************************************************************************)

MaxLines == 2            \* lines of a dominfo text

\* A text is a sequence of pieces: a key with its colon, a blank, a line
\* break, or a word of a value.
Keys == {"State:", "Name:"}
Words == {"running", "paused", "RUNNING", "shut off"}

\* The values of a line: one word, or the two state words in either order.
Values == {<<w>> : w \in Words} \cup {<<"paused", "running">>, <<"running", "paused">>}

\* The lines virsh dominfo prints: a key, blanks, a value.
Lines == {<<k, " ">> \o v : k \in Keys, v \in Values}

\* Lines joined by line breaks.
RECURSIVE Join(_)
Join(ls) ==
    IF ls = <<>> THEN <<>>
    ELSE IF Len(ls) = 1 THEN ls[1]
    ELSE ls[1] \o <<"\n">> \o Join(Tail(ls))

\* What _run can return for dominfo: the stripped output of virsh.
InfoTexts == {Join(ls) : ls \in UNION {[1..n -> Lines] : n \in 0..MaxLines}}

\* \s of the regular expressions: a blank or a line break.
IsSpace(c) == c \in {" ", "\n"}

\* str.lower() of a piece.
lower(c) == IF c = "RUNNING" THEN "running" ELSE c

\* re.search(r"State:\s+(.+)", info).group(1): from the first "State:" that
\* white space follows, skip the white space and take the rest of the line.
\* <<>> stands for no match.
state_match(text) ==
    LET At == {i \in 1..(Len(text) - 1) : text[i] = "State:" /\ IsSpace(text[i + 1])}
    IN  IF At = {} THEN <<>>
        ELSE LET i == CHOOSE x \in At : \A y \in At : x <= y
                 From == {j \in (i + 1)..Len(text) : ~IsSpace(text[j])}
             IN  IF From = {} THEN <<>>
                 ELSE LET j == CHOOSE x \in From : \A y \in From : x <= y
                          Brk == {e \in j..Len(text) : text[e] = "\n"}
                          e == IF Brk = {} THEN Len(text)
                               ELSE (CHOOSE x \in Brk : \A y \in Brk : x <= y) - 1
                      IN  SubSeq(text, j, e)

\* state_raw: the match in lower case, "unknown" without a match
\* (libvirt_remote.py:81, libvirt_executor.py:30 and 33).
state_raw(text) ==
    IF state_match(text) = <<>> THEN <<"unknown">>
    ELSE [i \in 1..Len(state_match(text)) |-> lower(state_match(text)[i])]

\* "word" in state
In(word, state) == \E i \in 1..Len(state) : state[i] = word

\* Mutant of DashboardPower: paused is looked for before running.
DashboardPowerPausedFirst(text) ==
    IF In("paused", state_raw(text)) THEN "paused"
    ELSE IF In("running", state_raw(text)) THEN "running" ELSE "stopped"

\* libvirt_remote.py:82, the conditional expression of the dashboard.
DashboardPower(text) ==
    IF In("running", state_raw(text)) THEN "running"
    ELSE (IF In("paused", state_raw(text)) THEN "paused" ELSE "stopped")

\* libvirt_executor.py:34-39, the if / elif / else of the agent.
AgentPower(text) ==
    CASE In("running", state_raw(text)) -> "running"
      [] ~In("running", state_raw(text)) /\ In("paused", state_raw(text)) -> "paused"
      [] OTHER -> "stopped"

\* No dominfo text has been classified.
NoPower == [dashboard |-> "none", agent |-> "none"]

\* list_vms of the dashboard and of the agent each read the same dominfo
\* text.
Classify(text) ==
    /\ power = NoPower
    /\ info' = text
    /\ power' = [dashboard |-> DashboardPower(text), agent |-> AgentPower(text)]
    /\ UNCHANGED <<now, execVars, cacheVars, consoleVars, agentVars, disk, mop,
                   writeVars>>

\* The next domain of the listing.
NextDomain ==
    /\ power # NoPower
    /\ info' = <<>>
    /\ power' = NoPower
    /\ UNCHANGED <<now, execVars, cacheVars, consoleVars, agentVars, disk, mop,
                   writeVars>>

\* No Domain Mapper method in progress, no dominfo text read.
MapperStart == disk = IdleDisk /\ mop = IdleOp /\ info = <<>> /\ power = NoPower

(***************************************************************************)
(* Write endpoints: a Domain Mapper write followed by a cache refresh      *)
(* (main.py, vmware_compat.py)                                             *)
(***************************************************************************)

MaxWrites == 2           \* writes one hypervisor applies in one behaviour

\* The endpoints that call a writing method of LibvirtRemote.
WriteEndpoints ==
    {"provision_vm", "vm_action", "delete_vm", "create_network",
     "delete_network", "resize_vm", "attach_recovery_iso",
     "detach_recovery_iso", "migrate_vm", "create_snapshot", "revert_snapshot",
     "delete_snapshot", "create_image", "delete_image", "power_on_vm",
     "power_off_vm", "reset_vm"}

\* Mutant of RefreshesCache: resize_vm returns without refreshing.
RefreshesCacheButResize(name) == name \notin {"migrate_vm", "resize_vm"}

\* Does the endpoint call _refresh_host_cache after its write?  All do but
\* migrate_vm (main.py:656-662), which records the event and returns.
RefreshesCache(name) == name # "migrate_vm"

\* The endpoints that pick the VM out of the refreshed state and answer 404
\* when it is not there (main.py:556-558, 612-614, 684-686).
LooksUpVm(name) == name \in {"vm_action", "resize_vm", "revert_snapshot"}

IdleWReq == [pc |-> "idle", name |-> "none", host |-> NoHost, mark |-> 0]

\* The step just taken ended no write endpoint.
NoWResp == [name |-> "none", host |-> NoHost, status |-> 0, mark |-> 0]

\* The endpoint is entered: _get_host_or_404 found the host.
WriteBegin(t, name, h) ==
    /\ wreq[t].pc = "idle"
    /\ req[t].pc = "idle"
    /\ h \in registered
    /\ hyp[h] < MaxWrites
    /\ wreq' = [wreq EXCEPT ![t] = [IdleWReq EXCEPT !.pc = "call", !.name = name,
                                                    !.host = h]]
    /\ wresp' = NoWResp
    /\ UNCHANGED <<hyp, seen>>
    /\ UNCHANGED <<now, execVars, cacheVars, consoleVars, agentVars, mapperVars>>

\* _libvirt_call raised: HTTP 502, the hypervisor and the cache as before.
WriteCallRaises(t) ==
    /\ wreq[t].pc = "call"
    /\ wresp' = [name |-> wreq[t].name, host |-> wreq[t].host, status |-> 502,
                 mark |-> 0]
    /\ wreq' = [wreq EXCEPT ![t] = IdleWReq]
    /\ UNCHANGED <<hyp, seen>>
    /\ UNCHANGED <<now, execVars, cacheVars, consoleVars, agentVars, mapperVars>>

\* _libvirt_call returned: the hypervisor has applied the write.  An endpoint
\* without a refresh returns here.
WriteCallReturns(t) ==
    /\ wreq[t].pc = "call"
    /\ LET h == wreq[t].host
           m == hyp[h] + 1
       IN  /\ hyp' = [hyp EXCEPT ![h] = m]
           /\ IF RefreshesCache(wreq[t].name)
              THEN /\ wreq' = [wreq EXCEPT ![t].pc = "called", ![t].mark = m]
                   /\ wresp' = NoWResp
              ELSE /\ wreq' = [wreq EXCEPT ![t] = IdleWReq]
                   /\ wresp' = [name |-> wreq[t].name, host |-> h, status |-> 200,
                                mark |-> m]
    /\ UNCHANGED seen
    /\ UNCHANGED <<now, execVars, cacheVars, consoleVars, agentVars, mapperVars>>

\* _refresh_host_cache(db, host) is entered.
WriteRefreshBegin(t) ==
    /\ wreq[t].pc = "called"
    /\ RefreshBegin(t, wreq[t].host)
    /\ wreq' = [wreq EXCEPT ![t].pc = "refresh"]
    /\ wresp' = NoWResp
    /\ UNCHANGED <<hyp, seen>>

\* The four fetcher calls of a refresh read the hypervisor as it is now.
FetchAllSeeing(t) ==
    /\ FetchAll(t)
    /\ seen' = [seen EXCEPT ![req[t].epoch] = hyp[req[t].host]]
    /\ wresp' = NoWResp
    /\ UNCHANGED <<wreq, hyp>>

\* A refresh committed.  If it is the refresh of a write endpoint, the
\* endpoint returns: 200, or 404 from an endpoint that looks the VM up in the
\* refreshed state and does not find it.
CommitAndRespond(t) ==
    /\ Commit(t)
    /\ IF wreq[t].pc = "refresh"
       THEN /\ \E found \in BOOLEAN :
                  /\ ~found => LooksUpVm(wreq[t].name)
                  /\ wresp' = [name |-> wreq[t].name, host |-> wreq[t].host,
                               status |-> IF found THEN 200 ELSE 404,
                               mark |-> wreq[t].mark]
            /\ wreq' = [wreq EXCEPT ![t] = IdleWReq]
       ELSE /\ wresp' = NoWResp
            /\ UNCHANGED wreq
    /\ UNCHANGED <<hyp, seen>>

\* A fetcher call of a refresh raised.  The refresh of a write endpoint has
\* no handler: the endpoint answers 502 although its write was applied.
FetchFailAndRespond(t, k) ==
    /\ FetchFail(t, k)
    /\ IF wreq[t].pc = "refresh"
       THEN /\ wresp' = [name |-> wreq[t].name, host |-> wreq[t].host,
                         status |-> 502, mark |-> wreq[t].mark]
            /\ wreq' = [wreq EXCEPT ![t] = IdleWReq]
       ELSE /\ wresp' = NoWResp
            /\ UNCHANGED wreq
    /\ UNCHANGED <<hyp, seen>>

\* The request thread that reads the cache while another writes.
ReaderThread == 2

\* A cache read by a thread that is in no write endpoint.
GetBesideWrites(t, h, force) ==
    /\ wreq[t].pc = "idle"
    /\ GetBegin(t, h, force)
    /\ wresp' = NoWResp
    /\ UNCHANGED <<wreq, hyp, seen>>

\* No endpoint entered, no write applied, no refresh made.
WriteStart ==
    /\ wreq = [t \in Threads |-> IdleWReq]
    /\ wresp = NoWResp
    /\ hyp = [h \in Hosts |-> 0]
    /\ seen = [e \in 1..MaxRefresh |-> 0]

(***************************************************************************)
(* Wall clock                                                              *)
(***************************************************************************)

\* Time passes.
Tick ==
    /\ now < MaxTime
    /\ now' = now + 1
    /\ resp' = NoResp
    /\ cresp' = NoCResp
    /\ UNCHANGED <<ttl_s, rows, registered, nextEpoch, req>>
    /\ UNCHANGED <<CONSOLE_SESSION_TTL_S, CONSOLE_SESSIONS, nextUuid, creq, issued>>
    /\ wresp' = NoWResp
    /\ UNCHANGED <<wreq, hyp, seen>>
    /\ UNCHANGED <<execVars, agentVars, mapperVars>>

\* The cache store before any request, with the configured TTL and the
\* registered hosts.
CacheStart(ttl, hs) ==
    /\ ttl_s = ttl
    /\ registered = hs
    /\ rows = [h \in Hosts |-> NoRow]
    /\ nextEpoch = 1
    /\ req = [t \in Threads |-> IdleReq]
    /\ resp = NoResp

(***************************************************************************)
(* Specifications                                                          *)
(***************************************************************************)

InitExec ==
    /\ \E n \in 1..MaxConcurrency, r \in 0..MaxRetry : ExecStart(n, r)
    /\ CacheStart(0, {})
    /\ ConsoleStart(0)
    /\ AgentStart
    /\ MapperStart
    /\ WriteStart
    /\ now = 1

NextExec ==
    \/ \E t \in Threads, u \in Uris, ts \in CmdTimeouts : Call(t, u, ts)
    \/ \E t \in Threads : Acquire(t)
    \/ \E t \in Threads : AcquireTimeout(t)
    \/ \E t \in Threads : Spawn(t)
    \/ \E t \in Threads : SpawnNotFound(t)
    \/ \E t \in Threads, o \in ProcessOutcomes : Exit(t, o)
    \/ \E t \in Threads : Wake(t)
    \/ \E t \in Threads : Release(t)
    \/ \E t \in Threads : Return(t)

SpecExec == InitExec /\ [][NextExec]_vars

\* What the threads are bound to do once inside _run: the acquire returns
\* with a slot or when its timeout elapsed, check_output starts the process
\* or fails to, the process exits or is timed out, the sleep ends, the
\* finally clause runs.  Nothing obliges a thread to call _run or the caller
\* to go on.
FairExec ==
    \A t \in Threads :
       /\ WF_vars(Acquire(t) \/ AcquireTimeout(t))
       /\ WF_vars(Spawn(t) \/ SpawnNotFound(t))
       /\ WF_vars(\E o \in ProcessOutcomes : Exit(t, o))
       /\ WF_vars(Wake(t))
       /\ WF_vars(Release(t))

\* The threads contending for one slot, each call with the default timeout
\* against one host.
InitExecFair ==
    /\ \E r \in 0..MaxRetry : ExecStart(1, r)
    /\ CacheStart(0, {})
    /\ ConsoleStart(0)
    /\ AgentStart
    /\ MapperStart
    /\ WriteStart
    /\ now = 1

NextExecFair ==
    \/ \E t \in Threads : Call(t, MapperUri, 8)
    \/ \E t \in Threads : Acquire(t)
    \/ \E t \in Threads : AcquireTimeout(t)
    \/ \E t \in Threads : Spawn(t)
    \/ \E t \in Threads : SpawnNotFound(t)
    \/ \E t \in Threads, o \in ProcessOutcomes : Exit(t, o)
    \/ \E t \in Threads : Wake(t)
    \/ \E t \in Threads : Release(t)
    \/ \E t \in Threads : Return(t)

SpecExecFair == InitExecFair /\ [][NextExecFair]_vars /\ FairExec

\* The executor in a process whose LIBVIRT_MAX_CONCURRENCY changes, started
\* with the value 1, no fork retries and the default command timeout.
InitExecResized ==
    /\ ExecStart(1, 0)
    /\ CacheStart(0, {})
    /\ ConsoleStart(0)
    /\ AgentStart
    /\ MapperStart
    /\ WriteStart
    /\ now = 1

NextExecResized ==
    \/ \E t \in Threads, u \in Uris : Call(t, u, 8)
    \/ \E t \in Threads : Acquire(t)
    \/ \E t \in Threads : AcquireTimeout(t)
    \/ \E t \in Threads : Spawn(t)
    \/ \E t \in Threads, o \in ProcessOutcomes : Exit(t, o)
    \/ \E t \in Threads : Release(t)
    \/ \E t \in Threads : Return(t)
    \/ \E n \in 1..MaxConcurrency : SetMaxConcurrency(n)

SpecExecResized == InitExecResized /\ [][NextExecResized]_vars

InitCache ==
    /\ ExecStart(1, 0)
    /\ \E ttl \in 0..MaxTtl : CacheStart(ttl, {"h1"})
    /\ ConsoleStart(0)
    /\ AgentStart
    /\ MapperStart
    /\ WriteStart
    /\ now = 1

NextCache ==
    \/ \E t \in Threads, h \in registered, force \in BOOLEAN :
          GetBegin(t, h, force) /\ UNCHANGED writeVars
    \/ \E t \in Threads, h \in registered : RefreshBegin(t, h) /\ UNCHANGED writeVars
    \/ \E t \in Threads : FetchAll(t) /\ UNCHANGED writeVars
    \/ \E t \in Threads : Commit(t) /\ UNCHANGED writeVars
    \/ \E t \in Threads, k \in 1..4 : FetchFail(t, k) /\ UNCHANGED writeVars
    \/ Tick

SpecCache == InitCache /\ [][NextCache]_vars

\* The cache with every host registered and rows that age at once.
InitCacheHosts ==
    /\ ExecStart(1, 0)
    /\ CacheStart(0, Hosts)
    /\ ConsoleStart(0)
    /\ AgentStart
    /\ MapperStart
    /\ WriteStart
    /\ now = 1

\* The cache operations within one instant of the clock: a stored row is
\* refreshed by refresh and by a forced get.
NextCacheHosts ==
    \/ \E t \in Threads, h \in registered, force \in BOOLEAN :
          GetBegin(t, h, force) /\ UNCHANGED writeVars
    \/ \E t \in Threads, h \in registered : RefreshBegin(t, h) /\ UNCHANGED writeVars
    \/ \E t \in Threads : FetchAll(t) /\ UNCHANGED writeVars
    \/ \E t \in Threads : Commit(t) /\ UNCHANGED writeVars
    \/ \E t \in Threads, k \in 1..4 : FetchFail(t, k) /\ UNCHANGED writeVars

SpecCacheHosts == InitCacheHosts /\ [][NextCacheHosts]_vars

\* The write endpoints of one request thread beside the cache reads of
\* another, within one instant of the clock: every stored row is within the
\* TTL.
InitWrite ==
    /\ ExecStart(1, 0)
    /\ CacheStart(MaxTtl, {"h1"})
    /\ ConsoleStart(0)
    /\ AgentStart
    /\ MapperStart
    /\ WriteStart
    /\ now = 1

NextWrite ==
    \/ \E name \in WriteEndpoints, h \in registered : WriteBegin(MapperThread, name, h)
    \/ WriteCallRaises(MapperThread)
    \/ WriteCallReturns(MapperThread)
    \/ WriteRefreshBegin(MapperThread)
    \/ \E t \in Threads : FetchAllSeeing(t)
    \/ \E t \in Threads : CommitAndRespond(t)
    \/ \E t \in Threads, k \in 1..4 : FetchFailAndRespond(t, k)
    \/ \E h \in registered, force \in BOOLEAN : GetBesideWrites(ReaderThread, h, force)

SpecWrite == InitWrite /\ [][NextWrite]_vars

InitConsole ==
    /\ ExecStart(1, 0)
    /\ CacheStart(0, {"h1"})
    /\ \E ttl \in 0..MaxSessionTtl : ConsoleStart(ttl)
    /\ AgentStart
    /\ MapperStart
    /\ WriteStart
    /\ now = 1

NextConsole ==
    \/ \E t \in Threads, h \in registered, v \in Vms : VmConsoleScan(t, h, v)
    \/ \E t \in Threads, d \in DisplayUris : VmConsoleIssue(t, d)
    \/ \E t \in Threads : VmConsoleFail(t)
    \/ Tick

SpecConsole == InitConsole /\ [][NextConsole]_vars

\* What urlparse can make of the display URI the hypervisor reports: the
\* hostname absent, a loopback, a wildcard or another address, and the port
\* absent or present.
DisplayUriForms ==
    {<<"vnc", h, p>> : h \in {"", "127.0.0.1", "::1", "localhost", "0.0.0.0",
                              "::", "10.0.0.9"},
                      p \in {NonePort, 5900}}

\* Console requests of one thread within one instant, over every form of
\* display URI.
NextConsoleDisplay ==
    \/ \E h \in registered, v \in Vms : VmConsoleScan(MapperThread, h, v)
    \/ \E d \in DisplayUriForms : VmConsoleIssue(MapperThread, d)
    \/ VmConsoleFail(MapperThread)

SpecConsoleDisplay == InitConsole /\ [][NextConsoleDisplay]_vars

\* vm_console of one request thread with its display lookup carried out by
\* console_info over _run (main.py:1147): the lookup starts once the scan
\* found nothing to reuse, and the request ends as the lookup ended.
ConsoleLookupBegin ==
    /\ creq[MapperThread].pc = "lookup"
    /\ OpBegin("console_info", <<creq[MapperThread].vm_id>>)

NextConsoleLookup ==
    \/ /\ mop.pc = "idle"
       /\ \E h \in registered, v \in Vms : VmConsoleScan(MapperThread, h, v)
    \/ ConsoleLookupBegin
    \/ OpIssue
    \/ Acquire(MapperThread)
    \/ Spawn(MapperThread)
    \/ SpawnNotFound(MapperThread)
    \/ \E o \in ProcessOutcomes : Exit(MapperThread, o)
    \/ Release(MapperThread)
    \/ OpCollect
    \/ /\ mop.pc = "done" /\ mop.outcome = "returned"
       /\ \E d \in DisplayUris : VmConsoleIssue(MapperThread, d)
    \/ /\ mop.pc = "done" /\ mop.outcome = "raised"
       /\ VmConsoleFail(MapperThread)
    \/ /\ creq[MapperThread].pc = "idle"
       /\ OpReturn
    \/ Tick

SpecConsoleLookup == InitConsole /\ [][NextConsoleLookup]_vars

InitCommon ==
    /\ ExecStart(1, 0)
    /\ CacheStart(0, {})
    /\ ConsoleStart(0)
    /\ AgentStart
    /\ MapperStart
    /\ WriteStart
    /\ now = 1

NextAgent ==
    \/ \E v \in AgentVmIds : AgentCreateVm(v)
    \/ \E v \in AgentVmIds, p \in PowerStates : AgentImportVm(v, p, <<>>)
    \/ \E v \in AgentVmIds, a \in VMActions : AgentVmAction(v, a)

SpecAgent == InitCommon /\ [][NextAgent]_vars

\* The pushes of the heartbeat thread and of a push-now request, interleaved.
NextPush ==
    \/ \E p \in Pushers : PushBegin(p)
    \/ \E p \in Pushers : RegisterReturns(p)
    \/ \E p \in Pushers : RegisterRaises(p)
    \/ \E p \in Pushers : HeartbeatReturns(p)
    \/ \E p \in Pushers : HeartbeatRaises(p)
    \/ \E p \in Pushers : RecordSuccess(p)
    \/ \E p \in Pushers : RecordFailure(p)
    \/ Tick

SpecPush == InitCommon /\ [][NextPush]_vars

\* The VM, network and snapshot operations of the in-memory store.
NextStore ==
    \/ \E v \in AgentVmIds : AgentCreateVm(v)
    \/ \E v \in AgentVmIds, nets \in NetLists : AgentImportVm(v, "stopped", nets)
    \/ \E v \in AgentVmIds, c \in AgentVmIds : AgentCloneVm(v, c)
    \/ \E v \in AgentVmIds : AgentDeleteVm(v)
    \/ \E v \in AgentVmIds, sn \in SnapshotIds : AgentCreateSnapshot(v, sn)
    \/ \E v \in AgentVmIds, sn \in SnapshotIds : AgentDeleteSnapshot(v, sn)
    \/ \E n \in NetworkIds : AgentCreateNetwork(n)
    \/ \E n \in NetworkIds, v \in AgentVmIds : AgentAttachNetwork(n, v)
    \/ \E n \in NetworkIds, v \in AgentVmIds : AgentDetachNetwork(n, v)
    \/ \E n \in NetworkIds : AgentDeleteNetwork(n)

SpecStore == InitCommon /\ [][NextStore]_vars

NextDisk ==
    \/ \E image \in ImageRefs : DiskBegin(image)
    \/ VolPathReturns
    \/ VolPathFails
    \/ DiskReturn

SpecDisk == InitCommon /\ [][NextDisk]_vars

\* The writing methods and console_info, over an executor with any retry
\* setting.
InitMapperWrite ==
    /\ \E r \in 0..MaxRetry : ExecStart(1, r)
    /\ CacheStart(0, {})
    /\ ConsoleStart(0)
    /\ AgentStart
    /\ MapperStart
    /\ WriteStart
    /\ now = 1

NextMapperWrite ==
    \/ \E op \in WriteOps : \E arg \in OpArgs(op) : OpBegin(op, arg)
    \/ OpIssue
    \/ Acquire(MapperThread)
    \/ Spawn(MapperThread)
    \/ SpawnNotFound(MapperThread)
    \/ \E o \in ProcessOutcomes : Exit(MapperThread, o)
    \/ Wake(MapperThread)
    \/ Release(MapperThread)
    \/ OpCollect
    \/ OpReturn

SpecMapperWrite == InitMapperWrite /\ [][NextMapperWrite]_vars

\* The power state of a domain, over every dominfo text.
NextClassify ==
    \/ \E text \in InfoTexts : Classify(text)
    \/ NextDomain

SpecClassify == InitCommon /\ [][NextClassify]_vars

\* The listing methods, over an executor without retries whose processes
\* end well or with a plain failure.
NextMapperList ==
    \/ \E op \in ListOps : \E arg \in OpArgs(op) : OpBegin(op, arg)
    \/ OpIssue
    \/ Acquire(MapperThread)
    \/ Spawn(MapperThread)
    \/ \E o \in {"ok", "failure"} : Exit(MapperThread, o)
    \/ Release(MapperThread)
    \/ OpCollect
    \/ OpReturn

SpecMapperList == InitCommon /\ [][NextMapperList]_vars

(***************************************************************************)
(* Claims about the Command Executor (checked under SpecExec).             *)
(***************************************************************************)

\* Threads whose virsh process is running.
Running == {t \in Threads : run[t].pc = "running"}

\* Threads inside a _run call.
InFlight == {t \in Threads : run[t].pc \notin {"idle", "done"}}

\* Threads that are inside a _run call and past the acquire.
PastAcquire == {t \in Threads : run[t].pc \in {"spawn", "running", "sleeping", "finally"}}

\* The last element of a non-empty outcome sequence.
LastOut(t) == run[t].outs[Len(run[t].outs)]

\* C1: with max_concurrency = N and any number of concurrent _run calls, at
\* most N external processes run at any instant (at most N callers are past
\* the acquire at all); every other caller in flight is waiting for a slot.
C1_AtMostNRunning ==
    /\ Cardinality(Running) <= max_concurrency
    /\ Cardinality(PastAcquire) <= max_concurrency
    /\ \A t \in InFlight \ PastAcquire : run[t].pc = "acquire"

\* C1 witness: all N slots run a process while another caller waits.
C1_Witness ==
    /\ Cardinality(Running) = max_concurrency
    /\ \E t \in Threads : run[t].pc = "acquire" /\ semaphores[run[t].sem].value = 0

\* C2: a ProcessFailure with the fork-exhaustion marker is retried up to
\* retry_count more times (never more than retry_count + 1 spawn attempts) and
\* surfaces only when the last attempt fails too; a ProcessFailure without
\* the marker surfaces on the attempt where it occurs, with no further attempt.
C2_ForkRetryOnly ==
    \A t \in Threads :
        LET n == Len(run[t].outs) IN
        /\ n <= retry_count + 1
        /\ \A i \in 1..(n - 1) : run[t].outs[i] = "fork"
        /\ (n > 0 /\ LastOut(t) = "fork") =>
              \/ run[t].pc \in {"sleeping", "spawn"} /\ n < retry_count + 1
              \/ /\ run[t].pc \in {"finally", "done"}
                 /\ n = retry_count + 1
                 /\ run[t].result = "ProcessFailure"
        /\ (n > 0 /\ LastOut(t) = "failure") =>
              /\ run[t].pc \in {"finally", "done"}
              /\ run[t].result = "ProcessFailure"

\* C2 witness: a call that used all retry_count + 1 attempts on fork
\* exhaustion, with at least one retry, and surfaced the failure.
C2_Witness ==
    \E t \in Threads :
        /\ run[t].pc = "done"
        /\ retry_count >= 1
        /\ Len(run[t].outs) = retry_count + 1
        /\ LastOut(t) = "fork"
        /\ run[t].result = "ProcessFailure"

\* C3: a _run call that acquired a slot releases it exactly once when it ends,
\* whatever the path; a call that got no slot releases nothing; so the free
\* slots never exceed max_concurrency and equal it when no call is in flight.
C3_SlotReleasedOnce ==
    /\ \A s \in 1..Len(semaphores) :
          /\ semaphores[s].value <= semaphores[s].size
          /\ semaphores[s].size = max_concurrency
          /\ semaphores[s].value =
                semaphores[s].size - Cardinality({t \in PastAcquire : run[t].sem = s})
          /\ InFlight = {} => semaphores[s].value = max_concurrency
    /\ \A t \in Threads :
          /\ run[t].pc = "done" =>
                /\ run[t].result \in {"ok", "ToolNotInstalled", "Timeout",
                                      "ProcessFailure", "QueueSaturated"}
                /\ run[t].releases = run[t].acquires
                /\ run[t].acquires = (IF run[t].result = "QueueSaturated" THEN 0 ELSE 1)
          /\ run[t].pc \in {"idle", "acquire"} => run[t].acquires = 0 /\ run[t].releases = 0
          /\ t \in PastAcquire => run[t].acquires = 1 /\ run[t].releases = 0

\* C3 witness: one call ended QueueSaturated without a release, another ended
\* in a Timeout with its one release, and all slots are free again.
C3_Witness ==
    /\ \E t \in Threads :
          run[t].pc = "done" /\ run[t].result = "QueueSaturated" /\ run[t].releases = 0
    /\ \E t \in Threads :
          run[t].pc = "done" /\ run[t].result = "Timeout" /\ run[t].releases = 1
    /\ InFlight = {}
    /\ semaphores[cls_semaphore].value = max_concurrency

\* C14: an attempt of _run that times out or finds the binary absent is the
\* last attempt of the call, whether it is the first attempt or a retry
\* after fork exhaustion: the call goes straight to its end with Timeout or
\* ToolNotInstalled and starts no further process.
C14_TimeoutAndNotInstalledNotRetried ==
    \A t \in Threads :
        \A i \in 1..Len(run[t].outs) :
            run[t].outs[i] \in {"timeout", "not_found"} =>
                /\ i = Len(run[t].outs)
                /\ run[t].pc \in {"finally", "done"}
                /\ run[t].result = (IF run[t].outs[i] = "timeout"
                                    THEN "Timeout" ELSE "ToolNotInstalled")

\* One call ended with Timeout and another with ToolNotInstalled, each on
\* its second attempt, after a first attempt that failed with fork
\* exhaustion.
C14_Witness ==
    /\ \E t \in Threads :
          /\ run[t].pc = "done"
          /\ run[t].outs = <<"fork", "timeout">>
          /\ run[t].result = "Timeout"
    /\ \E t \in Threads :
          /\ run[t].pc = "done"
          /\ run[t].outs = <<"fork", "not_found">>
          /\ run[t].result = "ToolNotInstalled"

\* C15: a _run call whose acquire wait, of max(timeout_s + 1, 5) seconds,
\* ends without a slot fails with QueueSaturated at that step: no slot was
\* free, the call has spawned nothing and spawns nothing, it neither took
\* nor gives back a slot, and the free slots of every semaphore are as
\* before.
C15_QueueSaturatedTouchesNothing ==
    [][\A t \in Threads :
          /\ (run[t].pc = "acquire" /\ run'[t].pc # "acquire") =>
                \/ /\ run'[t].pc = "spawn"
                   /\ run'[t].result = "none"
                \/ /\ run'[t].pc = "done"
                   /\ run'[t].result = "QueueSaturated"
                   /\ semaphores[run[t].sem].value = 0
                   /\ run[t].wait.acquire_timeout >= 5
                   /\ run[t].wait.acquire_timeout >= run[t].wait.timeout_s + 1
                   /\ run[t].wait.acquire_timeout \in {5, run[t].wait.timeout_s + 1}
                   /\ run'[t].outs = <<>>
                   /\ run'[t].acquires = 0
                   /\ semaphores' = semaphores
                   /\ cls_semaphore' = cls_semaphore
          /\ run[t].result = "QueueSaturated" =>
                /\ run[t].pc = "done"
                /\ run[t].releases = 0
                /\ run'[t] # run[t] => (run'[t] = IdleRun /\ semaphores' = semaphores)]_vars

\* A call has failed with QueueSaturated after a wait at the floor of five
\* seconds while the other calls held every slot, one of them with its
\* process running.
C15_Witness ==
    \E t \in Threads :
        /\ run[t].pc = "done"
        /\ run[t].result = "QueueSaturated"
        /\ run[t].wait.acquire_timeout = 5
        /\ run[t].wait.timeout_s + 1 < 5
        /\ semaphores[run[t].sem].value = 0
        /\ \E u \in Threads : run[u].pc = "running" /\ run[u].sem = run[t].sem

\* The calls that hold a slot and were made against uri u.
HoldingFor(u) == {t \in PastAcquire : run[t].uri = u}

\* C19: one semaphore serves the calls of every host: at most one semaphore
\* is ever made, every call in flight uses it whatever its uri, and the
\* calls holding a slot, counted over all hosts, number at most
\* max_concurrency.
C19_OneSemaphoreForAllHosts ==
    /\ Len(semaphores) <= 1
    /\ \A t \in InFlight : run[t].sem = cls_semaphore
    /\ Cardinality(UNION {HoldingFor(u) : u \in Uris}) <= max_concurrency
    /\ cls_semaphore # 0 =>
          semaphores[cls_semaphore].value =
             max_concurrency - Cardinality(UNION {HoldingFor(u) : u \in Uris})

\* C19 witness: every slot is held by a call against host hA, no call
\* against host hB holds one, and a call against hB gave up waiting with
\* QueueSaturated.
C19_Witness ==
    /\ Cardinality(HoldingFor("qemu+ssh://hA/system")) = max_concurrency
    /\ HoldingFor("qemu+ssh://hB/system") = {}
    /\ \E t \in Threads :
          /\ run[t].uri = "qemu+ssh://hB/system"
          /\ run[t].pc = "done"
          /\ run[t].result = "QueueSaturated"
          /\ run[t].acquires = 0

\* The max_concurrency of the LibvirtRemote thread t's call was made on: the
\* size of the semaphore it was handed.
EndpointMaxConcurrency(t) == semaphores[run[t].sem].size

\* C22 (checked under SpecExecResized): with LIBVIRT_MAX_CONCURRENCY changing
\* between instantiations, the calls holding a slot never outnumber the
\* max_concurrency of any endpoint that has a call holding a slot.
C22_BoundHoldsAcrossResizes ==
    \A t \in PastAcquire : Cardinality(PastAcquire) <= EndpointMaxConcurrency(t)

\* The calls that sleep between two attempts holding a slot of semaphore s.
Sleeping(s) == {t \in Threads : run[t].pc = "sleeping" /\ run[t].sem = s}

\* C36: a _run call acquires at most once however many attempts it makes;
\* going to sleep after a fork failure and waking for the next attempt leave
\* the semaphore as it is; the sleeping call holds its one slot, so the free
\* slots are at most those not held by sleepers and a caller is admitted
\* only while the sleepers do not hold them all.
C36_SlotHeldAcrossRetries ==
    [][\A t \in Threads :
          /\ run'[t].acquires <= 1
          /\ (run[t].pc = "running" /\ run'[t].pc = "sleeping") =>
                /\ semaphores' = semaphores
                /\ run'[t].acquires = 1 /\ run'[t].releases = 0
          /\ run[t].pc = "sleeping" =>
                /\ run[t].acquires = 1 /\ run[t].releases = 0
                /\ semaphores[run[t].sem].value
                      <= semaphores[run[t].sem].size - Cardinality(Sleeping(run[t].sem))
          /\ (run[t].pc = "sleeping" /\ run'[t].pc # "sleeping") =>
                /\ run'[t].pc = "spawn"
                /\ semaphores' = semaphores
                /\ run'[t].acquires = 1 /\ run'[t].releases = 0
          /\ (run[t].pc = "acquire" /\ run'[t].pc = "spawn") =>
                Cardinality(Sleeping(run[t].sem)) < semaphores[run[t].sem].size]_vars

\* C36 witness: a call sleeps after a fork failure holding the last slot on
\* the one acquire it made, and another caller has given up waiting.
C36_Witness ==
    \E t, u \in Threads :
       /\ run[t].pc = "sleeping"
       /\ run[t].outs = <<"fork">>
       /\ run[t].acquires = 1
       /\ semaphores[run[t].sem].value = 0
       /\ run[u].pc = "done" /\ run[u].result = "QueueSaturated"

\* C37: every _run call that was entered ends, with the output text or with
\* one Executor failure, after at most retry_count + 1 attempts; it is never
\* past its last attempt without a result.
C37_RunTerminates ==
    /\ [](\A t \in Threads :
            /\ Len(run[t].outs) <= retry_count + 1
            /\ run[t].pc = "done" =>
                  run[t].result \in {"ok", "QueueSaturated", "ToolNotInstalled",
                                     "Timeout", "ProcessFailure"}
            /\ run[t].pc = "sleeping" => Len(run[t].outs) < retry_count + 1)
    /\ \A t \in Threads : (run[t].pc # "idle") ~> (run[t].pc = "done")

\* C37 witness: a call has ended with a failure after using every attempt
\* it had, the first of them retried after a fork failure.
C37_Witness ==
    \E t \in Threads :
       /\ run[t].pc = "done"
       /\ retry_count >= 1
       /\ Len(run[t].outs) = retry_count + 1
       /\ run[t].outs[1] = "fork"
       /\ run[t].result = "ProcessFailure"

(***************************************************************************)
(* Claims about the Inventory Cache (checked under SpecCache).             *)
(***************************************************************************)

\* The four collections of a response, in the order of Kinds.
RespColls(p) == <<p.vms, p.networks, p.images, p.pools>>

\* The four collections a stored row holds, in the order of Kinds.
RowColls(r) == <<loads(r.vms_json), loads(r.networks_json),
                 loads(r.images_json), loads(r.pools_json)>>

\* The row exists and its age is at most the TTL.
WithinTtl(r) == r # NoRow /\ now - r.updated_at <= ttl_s

\* Thread t's refresh fails in this step: it leaves the fetch without
\* reaching the upsert.
RefreshFails(t) == req[t].pc = "fetch" /\ req'[t].pc = "idle"

\* Thread t, idle, calls get on host h in this step.
GetCalled(t, h) ==
    /\ req[t].pc = "idle"
    /\ \/ req'[t].pc = "fetch" /\ req'[t].op = "get" /\ req'[t].host = h
       \/ req' = req /\ resp'.op = "get" /\ resp'.host = h

\* The force_refresh argument of the get thread t calls in this step.
GetForce(t) == IF req'[t].pc = "fetch" THEN req'[t].force ELSE resp'.force

\* The four collections c are those of refresh invocation e, each in its place.
FromRefresh(c, e) ==
    \A k \in 1..4 : c[k] = [kind |-> Kinds[k], epoch |-> e]

\* C4: once a row is stored for a host, a get with forceRefresh = true whose
\* refresh fails returns state = stale with the four collections of the row
\* it read (the stored collections stay as they are) and last_error set to
\* the failure's text.
C4_StaleOnFailedForcedRefresh ==
    [][\A t \in Threads :
          (RefreshFails(t) /\ req[t].op = "get" /\ req[t].force /\ req[t].row # NoRow) =>
             LET h == req[t].host IN
             /\ resp'.outcome = "returned"
             /\ resp'.payload.cache = "stale"
             /\ RespColls(resp'.payload) = RowColls(req[t].row)
             /\ resp'.payload.updated_at = req[t].row.updated_at
             /\ resp'.payload.last_error = ErrorDetail(req[t].epoch)
             /\ resp'.payload.last_error # Null
             /\ RowColls(rows'[h]) = RowColls(rows[h])
             /\ rows'[h].last_error = ErrorDetail(req[t].epoch)]_vars

\* C4 witness: a forced get answered stale after the second mapper call
\* failed, the failure recorded on the stored row, whose collections are
\* those returned.
C4_Witness ==
    /\ resp.op = "get" /\ resp.force
    /\ resp.payload.cache = "stale"
    /\ resp.failed_call = 2
    /\ rows[resp.host].last_error = resp.error
    /\ RowColls(rows[resp.host]) = RespColls(resp.payload)

\* C5: with a row for the host at most ttl_s old, get with forceRefresh =
\* false returns state = hit with the stored row's content, makes no Domain
\* Mapper call and leaves the row unchanged; the response is a function of
\* the stored row alone, so two such calls with no write between them return
\* identical payloads.
C5_HitWithinTtl ==
    [][\A t \in Threads, h \in Hosts :
          (GetCalled(t, h) /\ WithinTtl(rows[h]) /\ ~GetForce(t)) =>
             /\ resp'.outcome = "returned"
             /\ resp'.payload =
                   [vms |-> loads(rows[h].vms_json),
                    networks |-> loads(rows[h].networks_json),
                    images |-> loads(rows[h].images_json),
                    pools |-> loads(rows[h].pools_json),
                    updated_at |-> rows[h].updated_at,
                    last_error |-> rows[h].last_error,
                    last_success_at |-> rows[h].last_success_at,
                    cache |-> "hit"]
             /\ req' = req
             /\ nextEpoch' = nextEpoch
             /\ rows' = rows]_vars

\* C5 witness: a hit served from a row exactly ttl_s old, ttl_s > 0.
C5_Witness ==
    /\ resp.op = "get" /\ ~resp.force
    /\ resp.payload.cache = "hit"
    /\ ttl_s > 0
    /\ now - rows[resp.host].updated_at = ttl_s

\* C6: a get that is forced, or finds no row, or finds a row older than the
\* TTL, never answers hit; when its four Domain Mapper calls succeed it
\* returns state = miss with exactly the collections the mapper returned, and
\* the stored row then holds those four collections, last_error cleared and
\* last_success_at = updated_at = the refresh time.
C6_MissStoresFetched ==
    [][/\ \A t \in Threads, h \in Hosts :
             (GetCalled(t, h) /\ (GetForce(t) \/ ~WithinTtl(rows[h]))) =>
                /\ resp' = NoResp
                /\ req'[t].pc = "fetch"
       /\ \A t \in Threads :
             (req[t].pc = "commit" /\ req'[t].pc = "idle") =>
                LET h == req[t].host IN
                /\ resp'.outcome = "returned"
                /\ resp'.payload.cache = "miss"
                /\ FromRefresh(RespColls(resp'.payload), req[t].epoch)
                /\ resp'.payload.updated_at = req[t].ts
                /\ FromRefresh(RowColls(rows'[h]), req[t].epoch)
                /\ rows'[h].last_error = Null
                /\ rows'[h].updated_at = req[t].ts
                /\ rows'[h].last_success_at = <<req[t].ts>>]_vars

\* C6 witness: a get on a host answered miss, the stored row holding what
\* the response carries.
C6_Witness ==
    /\ resp.op = "get"
    /\ resp.payload.cache = "miss"
    /\ RowColls(rows[resp.host]) = RespColls(resp.payload)
    /\ rows[resp.host].last_success_at = <<resp.payload.updated_at>>

\* C7: when the refresh of a get fails and get had found no row for the
\* host, the failure goes to the caller and the step creates no row.
C7_FailureWithoutRowPropagates ==
    [][\A t \in Threads :
          (RefreshFails(t) /\ req[t].op = "get" /\ req[t].row = NoRow) =>
             /\ resp'.outcome = "raised"
             /\ resp'.error = ErrorDetail(req[t].epoch)
             /\ resp'.payload = NoPayload
             /\ rows' = rows]_vars

\* C7 witness: a get raised the failure and the host still has no row.
C7_Witness ==
    /\ resp.op = "get"
    /\ resp.outcome = "raised"
    /\ rows[resp.host] = NoRow

\* C8: a row is only ever written as a replacement of all four collections
\* by one refresh: a refresh in which any of the four mapper calls fails,
\* also after earlier ones succeeded, changes no stored collection, and in
\* every reachable state the four collections of a row are of one refresh.
C8_RowFromOneRefresh ==
    [][/\ \A h \in Hosts :
             rows'[h] # NoRow => \E e \in 1..MaxRefresh : FromRefresh(RowColls(rows'[h]), e)
       /\ \A t \in Threads :
             RefreshFails(t) =>
                \A h \in Hosts :
                   /\ rows[h] = NoRow => rows'[h] = NoRow
                   /\ rows[h] # NoRow => RowColls(rows'[h]) = RowColls(rows[h])
       /\ \A h \in Hosts :
             (rows'[h] # NoRow /\ (rows[h] = NoRow \/ RowColls(rows'[h]) # RowColls(rows[h]))) =>
                \E t \in Threads :
                   /\ req[t].pc = "commit" /\ req'[t].pc = "idle" /\ req[t].host = h
                   /\ FromRefresh(RowColls(rows'[h]), req[t].epoch)]_vars

\* C8 witness: a refresh failed at its fourth mapper call, after three had
\* succeeded, on a host whose row holds the collections of an earlier refresh.
C8_Witness ==
    /\ resp.failed_call = 4
    /\ rows[resp.host] # NoRow
    /\ \E e \in 1..MaxRefresh : e # resp.error[2] /\ FromRefresh(RowColls(rows[resp.host]), e)

\* C9: a get running concurrently with a refresh of the same host returns
\* the four collections of one row, the old or the new, never a combination.
C9_ReaderSeesOneRow ==
    resp.payload.cache \in {"hit", "stale", "miss"} =>
        \E e \in 1..MaxRefresh : FromRefresh(RespColls(resp.payload), e)

\* C9 witness: a get answered from the stored row while a refresh of the
\* same host, with its collections fetched, was about to write the row.
C9_Witness ==
    /\ resp.op = "get"
    /\ resp.payload.cache \in {"hit", "stale"}
    /\ \E t \in Threads :
          /\ req[t].pc = "commit"
          /\ req[t].host = resp.host
          /\ ~FromRefresh(RespColls(resp.payload), req[t].epoch)


\* The keys of a result of get according to its contract, and the keys that
\* every result has.
ContractFields == {"vms", "networks", "images", "pools", "updated_at",
                   "last_error", "last_success_at", "cache"}
CommonFields == {"vms", "networks", "images", "pools", "updated_at", "cache"}

\* C12: every result returned by get carries vms, networks, images, pools,
\* updated_at, last_error, last_success_at and the state, and the state is
\* one of hit, miss, stale.
C12_ResultCarriesAllFields ==
    (resp.op = "get" /\ resp.outcome = "returned") =>
        /\ DOMAIN resp.payload = ContractFields
        /\ resp.payload.cache \in {"hit", "miss", "stale"}

\* C12 amended: every result returned by get carries vms, networks, images,
\* pools, updated_at and the state, and the state is one of hit, miss,
\* stale; a hit or stale result carries last_error and last_success_at as
\* well, a miss result carries neither.
C12_MissLacksErrorFields ==
    (resp.op = "get" /\ resp.outcome = "returned") =>
        /\ resp.payload.cache \in {"hit", "miss", "stale"}
        /\ CommonFields \subseteq DOMAIN resp.payload
        /\ resp.payload.cache \in {"hit", "stale"} =>
              DOMAIN resp.payload = ContractFields
        /\ resp.payload.cache = "miss" =>
              DOMAIN resp.payload = CommonFields

\* get has just returned the result of a successful refresh, which was not
\* the first refresh started, and the row holds what was returned.
C12_Witness ==
    /\ resp.op = "get"
    /\ resp.outcome = "returned"
    /\ resp.payload.cache = "miss"
    /\ rows[resp.host] # NoRow
    /\ rows[resp.host].updated_at = resp.payload.updated_at
    /\ resp.payload.pools.epoch > 1

\* C13: whenever a refresh fails for a host that has a stored row, whatever
\* ran the refresh and whichever of its calls failed, the caller gets a
\* state = stale response and no failure; the failure goes to the caller
\* only when the host has no stored row.
C13_FailureRecoveredWheneverRowStored ==
    [][\A t \in Threads :
          RefreshFails(t) =>
             LET h == req[t].host IN
             /\ rows[h] # NoRow =>
                   resp'.outcome = "returned" /\ resp'.payload.cache = "stale"
             /\ rows[h] = NoRow => resp'.outcome = "raised"]_vars

\* C13 amended: when the refresh run by get fails, whichever of its calls
\* failed, and get had read a stored row of the host before the refresh,
\* the caller gets a state = stale response and no failure; the failure
\* goes to the caller when get had read no row, also if a row has been
\* stored meanwhile, and whenever refresh was called directly, as it is
\* after a write operation, also for a host with a stored row.
C13_FailureRecoveredByGetWithRowRead ==
    [][\A t \in Threads :
          RefreshFails(t) =>
             IF req[t].op = "get" /\ req[t].row # NoRow
             THEN /\ resp'.outcome = "returned"
                  /\ resp'.payload.cache = "stale"
                  /\ resp'.failed_call \in 1..4
             ELSE /\ resp'.outcome = "raised"
                  /\ resp'.payload = NoPayload
                  /\ resp'.error = ErrorDetail(req[t].epoch)
                  /\ resp'.failed_call \in 1..4
                  /\ rows' = rows]_vars

\* A refresh called directly has just failed for a host with a stored row,
\* and the failure went to the caller.
C13_Witness ==
    /\ resp.op = "refresh"
    /\ resp.outcome = "raised"
    /\ rows[resp.host] # NoRow

\* The stored row r apart from its last_error.
SansLastError(r) == [r EXCEPT !.last_error = Null]

\* After this step a get of host h without force is not served from the row:
\* there is none or it is older than the TTL.
RefreshedByNextGet(h) ==
    rows'[h] = NoRow \/ now' - rows'[h].updated_at > ttl_s'

ServedFromRow ==
    /\ resp.op = "get" /\ resp.outcome = "returned"
    /\ resp.payload.cache \in {"hit", "stale"}

\* C21: a get answered from stored collections of a row older than the TTL
\* or carrying a last_error has state stale, and an answer with state hit
\* has no last_error.
C21_HitHasNoPendingError ==
    ServedFromRow =>
        /\ (now - resp.payload.updated_at > ttl_s \/ resp.payload.last_error # Null) =>
              resp.payload.cache = "stale"
        /\ resp.payload.cache = "hit" => resp.payload.last_error = Null

\* Thread t takes a step of a cache operation on host a: it calls get or
\* refresh on a, or it is inside an operation on a and moves.
OperatesOn(t, a) ==
    \/ GetCalled(t, a)
    \/ req[t].pc = "idle" /\ req'[t].pc = "fetch" /\ req'[t].host = a
    \/ req[t].pc # "idle" /\ req[t].host = a /\ req'[t] # req[t]

\* C18 (checked under SpecCacheHosts): a step of a get or a refresh on one
\* host, interleaved in any way with operations on the other hosts, leaves
\* every field of every other host's row as it was.
C18_OtherHostsRowUnchanged ==
    [][\A t \in Threads, a \in Hosts :
          OperatesOn(t, a) => \A b \in Hosts \ {a} : rows'[b] = rows[b]]_vars

\* C18 witness: an operation on h1 that began first stored its row after an
\* operation on h2 that began later had stored the row of h2; both rows
\* hold what their own refresh fetched.
C18_Witness ==
    /\ resp.host = "h1" /\ resp.payload.cache = "miss"
    /\ rows["h1"] # NoRow /\ rows["h2"] # NoRow
    /\ FromRefresh(RowColls(rows["h1"]), 1)
    /\ FromRefresh(RowColls(rows["h2"]), 2)

\* C33: the stored updated_at of a host's row never decreases, whatever
\* the interleaving of the refreshes of that host; a stored row is never
\* removed.
C33_UpdatedAtNeverDecreases ==
    [][\A h \in Hosts :
          rows[h] # NoRow =>
             /\ rows'[h] # NoRow
             /\ rows'[h].updated_at >= rows[h].updated_at]_vars

\* The step ends a refresh that failed.
RefreshFailed == resp'.op # "none" /\ resp'.error # Null

\* The step ends a refresh of host h that succeeded.
RefreshSucceeded(h) ==
    resp'.op # "none" /\ resp'.host = h /\ resp'.payload # NoPayload
       /\ resp'.payload.cache = "miss"

\* C34: every stored row has last_success_at equal to updated_at; a
\* successful refresh writes both to the timestamp it returns and a failed
\* refresh changes neither.
C34_SuccessAtEqualsUpdatedAt ==
    [][\A h \in Hosts :
          /\ rows'[h] # NoRow => rows'[h].last_success_at = <<rows'[h].updated_at>>
          /\ RefreshSucceeded(h) =>
                /\ rows'[h] # NoRow
                /\ rows'[h].updated_at = resp'.payload.updated_at
                /\ rows'[h].last_success_at = <<resp'.payload.updated_at>>
          /\ (RefreshFailed /\ rows[h] # NoRow) =>
                /\ rows'[h] # NoRow
                /\ rows'[h].updated_at = rows[h].updated_at
                /\ rows'[h].last_success_at = rows[h].last_success_at]_vars

\* C34 witness: a refresh that failed after the clock had advanced has just
\* left its error on a row whose two timestamps are those of the earlier
\* successful refresh.
C34_Witness ==
    \E h \in Hosts :
       /\ rows[h] # NoRow
       /\ resp.host = h
       /\ resp.error # Null
       /\ rows[h].last_error = resp.error
       /\ rows[h].updated_at < now
       /\ rows[h].last_success_at = <<rows[h].updated_at>>

(***************************************************************************)
(* Claims about the Console Session Broker (checked under SpecConsole).    *)
(***************************************************************************)

\* The step is a request for (h, v) reading the clock and scanning the
\* history: it either returns an existing session or goes on to the display
\* lookup.
Requests(h, v) ==
    \/ /\ creq' = creq
       /\ cresp'.path = "existing"
       /\ cresp'.host_id = h
       /\ cresp'.vm_id = v
    \/ \E t \in Threads :
          /\ creq[t].pc = "idle"
          /\ creq'[t].pc = "lookup"
          /\ creq'[t].host_id = h
          /\ creq'[t].vm_id = v

\* The step ends thread t's request with a newly created session.
Mints(t) ==
    /\ creq[t].pc = "lookup"
    /\ creq'[t].pc = "idle"
    /\ cresp'.status = 200

\* Sessions of (h, v) handed to some caller and not older than the TTL.
HandedWithinTtl(h, v) ==
    {s \in issued : /\ s.host_id = h
                    /\ s.vm_id = v
                    /\ now - s.created_ts <= CONSOLE_SESSION_TTL_S}

\* Sessions of (h, v) handed to some caller.
HandedFor(h, v) == {s \in issued : s.host_id = h /\ s.vm_id = v}

\* C10: a request for (host, VM) made while a session that an
\* earlier request for the pair returned is within the TTL returns that
\* session's ticket; a request made when every session returned for the pair
\* is older than the TTL goes on to mint a ticket, and a minted ticket differs
\* from every ticket returned before.
C10_SameTicketWithinTtl ==
    [][/\ \A h \in Hosts, v \in Vms :
            Requests(h, v) =>
               /\ \A s \in HandedWithinTtl(h, v) :
                     cresp'.status = 200 /\ cresp'.ticket = s.ticket
               /\ (HandedFor(h, v) # {} /\ HandedWithinTtl(h, v) = {})
                     => \E t \in Threads : creq[t].pc = "idle" /\ creq'[t].pc = "lookup"
       /\ \A t \in Threads :
            Mints(t) => \A s \in issued : cresp'.ticket # s.ticket]_vars


\* C11: the history never holds more than the cap; a step that creates a
\* session puts it at the front, keeps the sessions already there in their
\* order behind it and drops only what then lies beyond the cap (the
\* oldest); every other step leaves the history as it is.
C11_HistoryCappedNewestFirst ==
    [][/\ Len(CONSOLE_SESSIONS') <= SessionCap
       /\ IF \E t \in Threads : Mints(t)
          THEN /\ Len(CONSOLE_SESSIONS') =
                     IF Len(CONSOLE_SESSIONS) < SessionCap
                     THEN Len(CONSOLE_SESSIONS) + 1 ELSE SessionCap
               /\ CONSOLE_SESSIONS'[1].ticket = cresp'.ticket
               /\ \A i \in DOMAIN CONSOLE_SESSIONS : CONSOLE_SESSIONS'[1] # CONSOLE_SESSIONS[i]
               /\ \A i \in 2..Len(CONSOLE_SESSIONS') :
                     CONSOLE_SESSIONS'[i] = CONSOLE_SESSIONS[i - 1]
          ELSE CONSOLE_SESSIONS' = CONSOLE_SESSIONS]_vars

\* A session has just been created while the history was full: more
\* sessions have been handed out than the history holds.
C11_Witness ==
    /\ cresp.path = "minted"
    /\ Len(CONSOLE_SESSIONS) = SessionCap
    /\ Cardinality(issued) > SessionCap
    /\ CONSOLE_SESSIONS[1].ticket = cresp.ticket


\* The places in the history of sessions for (h, v) whose age is within the
\* session TTL and whose viewer URL is not empty.
Found(h, v) ==
    {i \in 1..Len(CONSOLE_SESSIONS) :
        /\ CONSOLE_SESSIONS[i].host_id = h
        /\ CONSOLE_SESSIONS[i].vm_id = v
        /\ now - timestamp(CONSOLE_SESSIONS[i].created_at) <= CONSOLE_SESSION_TTL_S
        /\ CONSOLE_SESSIONS[i].novnc_url # EmptyUrl}

\* C30: a request for (host, VM) that finds such a session returns the
\* ticket and viewer URL of the first one found, starts no display lookup,
\* draws no uuid and leaves the history as it is.
C30_ReuseTouchesNothing ==
    [][\A h \in Hosts, v \in Vms :
          (Requests(h, v) /\ Found(h, v) # {}) =>
             /\ cresp'.status = 200 /\ cresp'.path = "existing"
             /\ cresp'.host_id = h /\ cresp'.vm_id = v
             /\ \E i \in Found(h, v) :
                   /\ \A j \in Found(h, v) : i <= j
                   /\ cresp'.ticket = CONSOLE_SESSIONS[i].ticket
                   /\ cresp'.noVNC_url = CONSOLE_SESSIONS[i].novnc_url
             /\ creq' = creq
             /\ nextUuid' = nextUuid
             /\ CONSOLE_SESSIONS' = CONSOLE_SESSIONS]_vars

\* C30 witness: a request was answered with the session that lies second
\* in the history, behind a newer session of another VM.
C30_Witness ==
    /\ cresp.path = "existing"
    /\ Len(CONSOLE_SESSIONS) = 2
    /\ CONSOLE_SESSIONS[1].vm_id # cresp.vm_id
    /\ CONSOLE_SESSIONS[2].vm_id = cresp.vm_id
    /\ CONSOLE_SESSIONS[2].ticket = cresp.ticket
    /\ CONSOLE_SESSIONS[2].novnc_url = cresp.noVNC_url

\* C32: under concurrent console requests the history holds, for every
\* (host, VM), at most one session whose age is within the session TTL, and
\* all tickets handed out for the pair within that window are the same.
C32_OneFreshSessionPerPair ==
    \A h \in Hosts, v \in Vms :
       /\ Cardinality(Found(h, v)) <= 1
       /\ \A s1, s2 \in HandedWithinTtl(h, v) : s1.ticket = s2.ticket

(***************************************************************************)
(* Claims about the agent's VM store (checked under SpecAgent).            *)
(***************************************************************************)

\* The step applies power action a to the stored VM v.
Applies(v, a) == trail[v] # <<>> /\ trail'[v] = Append(trail[v], a)

\* The power state an action is to give.
GivenBy(a) ==
    IF a \in {"start", "reboot", "resume"} THEN "running"
    ELSE IF a = "pause" THEN "paused"
    ELSE "stopped"

FirstSepAt(s, i) ==
    /\ i \in 1..(Len(s) - 1)
    /\ s[i] = ":" /\ s[i + 1] = ":"
    /\ \A j \in 1..(i - 1) : ~(s[j] = ":" /\ s[j + 1] = ":")

\* s is of the form pool::volume: its first "::" has text on both sides.
PoolVolumeForm(s) == \E i \in 2..(Len(s) - 2) : FirstSepAt(s, i)

\* s is an absolute path.
AbsolutePath(s) == Len(s) >= 1 /\ s[1] = "/"

\* The call in progress made no lookup and returned r.
ResolvedWithoutLookup(r) ==
    disk.pc = "done" /\ disk.lookups = 0 /\ disk.result = r

\* The call in progress made one lookup, of volume v in pool p, and, once
\* it has returned, resolved to the path found or, the lookup failing, to
\* no disk.
ResolvedByLookup(v, p) ==
    /\ disk.pc \in {"lookup", "done"}
    /\ disk.lookups = 1
    /\ disk.lookup = [vol |-> v, pool |-> p]
    /\ disk.pc = "done" => disk.result \in {VolPath(v, p), <<>>}

\* C17: with s the image reference without surrounding blanks, a call
\* resolves s of the form pool::volume by one lookup of that volume in that
\* pool, s that is an absolute path to s itself with no lookup, any other
\* non-empty s by one lookup of s in the default pool, and an empty s to no
\* disk with no lookup.
C17_DiskSourceByForm ==
    disk.pc # "idle" =>
        LET s == strip(disk.image) IN
        /\ PoolVolumeForm(s) =>
              \E i \in 2..(Len(s) - 2) :
                 /\ FirstSepAt(s, i)
                 /\ ResolvedByLookup(SubSeq(s, i + 2, Len(s)), SubSeq(s, 1, i - 1))
        /\ AbsolutePath(s) => ResolvedWithoutLookup(s)
        /\ (s # <<>> /\ ~PoolVolumeForm(s) /\ ~AbsolutePath(s)) =>
              ResolvedByLookup(s, DefaultPool)
        /\ s = <<>> => ResolvedWithoutLookup(<<>>)

(***************************************************************************)
(* Claims about the Domain Mapper methods (checked under SpecMapperWrite   *)
(* and SpecMapperList).                                                    *)
(***************************************************************************)

\* The _run calls the method in progress has made so far.
Made == 1..Len(mop.log)

\* The method in progress has ended by letting the failure of its call
\* number i through.
RaisedBy(i) ==
    /\ mop.pc = "done" /\ mop.outcome = "raised"
    /\ i = Len(mop.log) /\ mop.failed = mop.log[i].cmd

\* C23 as stated: a writing method or console_info starts one process per
\* call at most, and a call that fails is the method's last and its failure
\* is the method's.
C23_EachInvocationIssuedOnce ==
    \A i \in Made :
        /\ mop.log[i].spawns <= 1
        /\ ~mop.log[i].ok => RaisedBy(i)

\* C23 amended: a writing method or console_info makes each of its _run
\* calls once; a call starts at most retry_count + 1 processes, a further
\* one only after a fork failure; a failed call outside a try block is the
\* method's last and its failure is the method's; the calls whose failure
\* is caught are destroy, net-destroy and vol-path.
C23_NoRetryAboveTheExecutor ==
    \A i \in Made :
        /\ \A j \in Made : mop.log[j].cmd = mop.log[i].cmd => j = i
        /\ mop.log[i].spawns <= retry_count + 1
        /\ mop.log[i].spawns > 1 => mop.log[i].forks >= mop.log[i].spawns - 1
        /\ (~mop.log[i].ok /\ ~mop.log[i].soft) => RaisedBy(i)
        /\ (~mop.log[i].ok /\ mop.log[i].soft) =>
              /\ mop.log[i].cmd \in {"destroy", "net-destroy", "vol-path"}
              /\ ~RaisedBy(i)

\* C23 witness: resize has failed at its second call, which started one
\* process, after a first call that the executor had to spawn twice.
C23_Witness ==
    /\ mop.op = "resize" /\ mop.outcome = "raised" /\ mop.failed = "setmaxmem"
    /\ Len(mop.log) = 2
    /\ mop.log[1].ok /\ mop.log[1].spawns = 2 /\ mop.log[1].forks = 1
    /\ ~mop.log[2].ok /\ mop.log[2].spawns = 1

\* The subcommands of the _run calls made so far, in the order made.
CmdsMade == [i \in Made |-> mop.log[i].cmd]

\* The subcommand of the _run call the method in progress makes next.
NextCmd == Head(mop.todo).cmd

\* C24: delete_vm calls destroy first and undefine second; undefine follows
\* whether destroy succeeded or failed, and delete_vm returns exactly when
\* undefine succeeded.
C24_UndefineAfterAnyForcedStop ==
    mop.op = "delete_vm" =>
        /\ CmdsMade \in {<<>>, <<"destroy">>, <<"destroy", "undefine">>}
        /\ (mop.pc = "run" /\ CmdsMade = <<>>) => NextCmd = "destroy"
        /\ (mop.pc = "run" /\ CmdsMade = <<"destroy">>) => NextCmd = "undefine"
        /\ mop.pc = "done" =>
              /\ CmdsMade = <<"destroy", "undefine">>
              /\ mop.outcome = "returned" <=> mop.log[2].ok
              /\ mop.outcome = "raised" <=> ~mop.log[2].ok

\* C24 witness: delete_vm has returned after a destroy that failed and an
\* undefine that succeeded.
C24_Witness ==
    /\ mop.op = "delete_vm" /\ mop.pc = "done" /\ mop.outcome = "returned"
    /\ ~mop.log[1].ok /\ mop.log[2].ok

\* s is an initial part of t.
IsPrefix(s, t) == Len(s) <= Len(t) /\ \A i \in 1..Len(s) : s[i] = t[i]

\* The three calls of resize in their order.
ResizeCmds == <<"setvcpus", "setmaxmem", "setmem">>

\* C25: resize calls setvcpus, setmaxmem and setmem in that order; a call
\* that fails is the last one made and its failure is that of resize; the
\* calls made are these three only, so nothing undoes the ones that
\* succeeded; resize returns once all three have succeeded.
C25_ResizeInOrderNoRollback ==
    mop.op = "resize" =>
        /\ IsPrefix(CmdsMade, ResizeCmds)
        /\ mop.pc = "run" => NextCmd = ResizeCmds[Len(mop.log) + 1]
        /\ \A i \in Made : ~mop.log[i].ok => RaisedBy(i)
        /\ \A i \in Made : i < Len(mop.log) => mop.log[i].ok
        /\ (mop.pc = "done" /\ mop.outcome = "returned") =>
              CmdsMade = ResizeCmds /\ \A i \in Made : mop.log[i].ok
        /\ (mop.pc = "done" /\ mop.outcome = "raised") =>
              ~mop.log[Len(mop.log)].ok

\* C25 witness: resize has failed at setmaxmem after setvcpus succeeded;
\* setmem was not called and nothing was called after the failure.
C25_Witness ==
    /\ mop.op = "resize" /\ mop.pc = "done" /\ mop.outcome = "raised"
    /\ CmdsMade = <<"setvcpus", "setmaxmem">>
    /\ mop.log[1].ok /\ ~mop.log[2].ok /\ mop.failed = "setmaxmem"

\* The domain names the listing in progress has read.
NamesRead == mop.log[1].out

\* The domiflist call made for domain name succeeded.
IfacesRead(name) ==
    \E i \in Made :
        mop.log[i].cmd = "domiflist" /\ mop.log[i].arg = <<name>> /\ mop.log[i].ok

\* C26: in list_vms a failed domiflist gives the domain a record without
\* networks and the listing goes on with the next domain; a failed list or
\* dominfo ends the listing with the failure and no records.  A listing
\* that returns has one record per domain name, in order.
C26_OnlyInterfaceQueryIsBestEffort ==
    mop.op = "list_vms" =>
        /\ \A i \in Made :
              /\ (mop.log[i].cmd = "domiflist" /\ ~mop.log[i].ok) => ~RaisedBy(i)
              /\ (mop.log[i].cmd \in {"list", "dominfo"} /\ ~mop.log[i].ok) =>
                    RaisedBy(i) /\ mop.value = <<>>
              /\ (mop.log[i].cmd = "domiflist" /\ mop.pc = "run") =>
                    (i = Len(mop.log) =>
                        /\ NextCmd = "dominfo"
                        /\ \E k \in 1..(Len(NamesRead) - 1) :
                              /\ mop.log[i].arg = <<NamesRead[k]>>
                              /\ Head(mop.todo).arg = <<NamesRead[k + 1]>>)
        /\ (mop.pc = "done" /\ mop.outcome = "raised") => mop.value = <<>>
        /\ (mop.pc = "done" /\ mop.outcome = "returned") =>
              /\ Len(mop.value) = Len(NamesRead)
              /\ \A k \in 1..Len(NamesRead) :
                    /\ mop.value[k].vm_id = NamesRead[k]
                    /\ mop.value[k].networks =
                          IF IfacesRead(NamesRead[k]) THEN IfacesOf(NamesRead[k])
                          ELSE <<>>

\* C26 witness: the listing of two domains has returned two records, the
\* first without networks because its domiflist failed, the second with
\* the networks found.
C26_Witness ==
    /\ mop.op = "list_vms" /\ mop.pc = "done" /\ mop.outcome = "returned"
    /\ Len(mop.value) = 2
    /\ ~IfacesRead("vm1") /\ mop.value[1].networks = <<>>
    /\ IfacesRead("vm2") /\ mop.value[2].networks = <<"default">>

\* The disk source create_vm has resolved once its define call is planned or
\* made: the source file of the descriptor, empty for a descriptor with no
\* disk.
DescriptorDisk ==
    IF mop.log # <<>> /\ mop.log[Len(mop.log)].cmd = "define"
    THEN mop.log[Len(mop.log)].arg
    ELSE IF mop.todo # <<>> /\ NextCmd = "define" THEN Head(mop.todo).arg
    ELSE <<"unresolved">>

\* C27: in create_vm a failed vol-path does not end the creation: define is
\* the next call, with a descriptor that has no disk, and create_vm fails
\* exactly when define fails.
C27_DiskResolutionFailureIsSoft ==
    mop.op = "create_vm" =>
        /\ \A i \in Made :
              (mop.log[i].cmd = "vol-path" /\ ~mop.log[i].ok) =>
                 /\ ~RaisedBy(i)
                 /\ i = 1
                 /\ mop.pc = "run" =>
                       NextCmd = "define" /\ Len(mop.todo) = 1
                 /\ DescriptorDisk = <<>>
        /\ \A i \in Made :
              mop.log[i].cmd = "define" =>
                 /\ i = Len(mop.log) /\ mop.pc = "done"
                 /\ mop.outcome = "raised" <=> ~mop.log[i].ok
                 /\ mop.outcome = "returned" <=> mop.log[i].ok
        /\ mop.pc = "done" => mop.log[Len(mop.log)].cmd = "define"
        /\ (mop.pc = "done" /\ mop.outcome = "returned") =>
              mop.value[1].disk_source = DescriptorDisk

\* C27 witness: create_vm has returned a VM without disk source after its
\* vol-path call failed and its define call, with a descriptor without
\* disk, succeeded.
C27_Witness ==
    /\ mop.op = "create_vm" /\ mop.pc = "done" /\ mop.outcome = "returned"
    /\ Len(mop.log) = 2
    /\ mop.log[1].cmd = "vol-path" /\ ~mop.log[1].ok
    /\ mop.log[2].cmd = "define" /\ mop.log[2].arg = <<>> /\ mop.log[2].ok
    /\ mop.value[1].disk_source = <<>>

\* The pool names and the domain names list_storage_pools has read.
PoolsRead == mop.log[1].out
DomainsRead == mop.log[2].out

\* The call of subcommand cmd for the object named name was made, and it
\* succeeded.
Called(cmd, name) ==
    \E i \in Made : mop.log[i].cmd = cmd /\ mop.log[i].arg = <<name>>
Succeeded(cmd, name) ==
    \E i \in Made :
        mop.log[i].cmd = cmd /\ mop.log[i].arg = <<name>> /\ mop.log[i].ok

\* The domains whose block-device listing worked and names volume vol.
UsersListed(vol) ==
    {DomainsRead[n] : n \in {m \in 1..Len(DomainsRead) :
                                /\ Succeeded("domblklist", DomainsRead[m])
                                /\ BlkOf(DomainsRead[m]) = <<vol>>}}

\* C28: in list_storage_pools a failed domblklist only leaves that domain
\* out of the usage of the volumes and a failed vol-list gives that pool no
\* volumes; neither ends the listing.  Once the pool names and the domain
\* names are read, every domain and every pool is queried and the listing
\* returns one record per pool, in order.
C28_OneRecordPerPool ==
    mop.op = "list_storage_pools" =>
        /\ \A i \in Made :
              /\ (mop.log[i].cmd \in {"domblklist", "vol-list", "vol-info"}
                  /\ ~mop.log[i].ok) => ~RaisedBy(i)
              /\ (mop.log[i].cmd \in {"pool-list", "list"} /\ ~mop.log[i].ok) =>
                    RaisedBy(i) /\ i <= 2
        /\ (mop.pc = "done" /\ Len(mop.log) > 2) => mop.outcome = "returned"
        /\ (mop.pc = "done" /\ mop.outcome = "returned") =>
              /\ \A n \in 1..Len(DomainsRead) : Called("domblklist", DomainsRead[n])
              /\ Len(mop.value) = Len(PoolsRead)
              /\ \A k \in 1..Len(PoolsRead) :
                    LET p == PoolsRead[k] IN
                    /\ Called("vol-list", p)
                    /\ mop.value[k].pool_id = p
                    /\ ~Succeeded("vol-list", p) => mop.value[k].volumes = <<>>
                    /\ Succeeded("vol-list", p) =>
                          /\ Len(mop.value[k].volumes) = Len(VolsOf(p))
                          /\ \A v \in 1..Len(VolsOf(p)) :
                                /\ mop.value[k].volumes[v].name = VolsOf(p)[v]
                                /\ mop.value[k].volumes[v].used_by =
                                      UsersListed(VolsOf(p)[v])

\* C28 witness: with two domains and two pools the listing has returned two
\* records although the block-device listing of vm1 and the volume listing
\* of p2 failed: the volume of p1 shows no user and p2 shows no volumes.
C28_Witness ==
    /\ mop.op = "list_storage_pools" /\ mop.pc = "done"
    /\ mop.outcome = "returned"
    /\ PoolsRead = <<"p1", "p2">> /\ DomainsRead = <<"vm1", "vm2">>
    /\ ~Succeeded("domblklist", "vm1") /\ Succeeded("domblklist", "vm2")
    /\ Succeeded("vol-list", "p1") /\ ~Succeeded("vol-list", "p2")
    /\ mop.value[1].volumes[1].used_by = {}
    /\ mop.value[2].volumes = <<>>

(***************************************************************************)
(* Claims about the console URLs (checked under SpecConsoleDisplay).       *)
(***************************************************************************)

\* The value of parameter key in a query, Null when the query lacks it.
Param(query, key) ==
    LET I == {i \in 1..Len(query) : query[i][1] = key}
    IN  IF I = {} THEN Null ELSE <<query[CHOOSE i \in I : TRUE][2]>>

\* The query of the websocket URL inside a viewer URL.
WsQuery(novnc_url) == Param(novnc_url[3], "path")[1][3]

\* The display hosts C29 has replaced by the registered address: none,
\* loopback, wildcard.  (The set the code tests is Loopbacks.)
Unreachable == {"", "127.0.0.1", "::1", "localhost", "0.0.0.0", "::"}

\* C29: every session built from a display URI that reports a port has as
\* its VNC host the host's registered address when the reported display
\* host is empty, a loopback or a wildcard address, and the reported host
\* otherwise; the websocket URL carries vnc_host and vnc_port only when the
\* session has both, and then those.
C29_EffectiveVncHost ==
    \A i \in 1..Len(CONSOLE_SESSIONS) :
        LET s == CONSOLE_SESSIONS[i]
            reported == s.display_uri[2]
            ws == WsQuery(s.novnc_url)
        IN  /\ s.display_uri[3] # NonePort =>
                  s.vnc_host = IF reported \in Unreachable
                               THEN HostAddress(s.host_id) ELSE reported
            /\ Param(ws, "vnc_host") # Null =>
                  /\ s.vnc_host # "" /\ s.vnc_port # ""
                  /\ Param(ws, "vnc_host") = <<s.vnc_host>>
                  /\ Param(ws, "vnc_port") = <<s.vnc_port>>
            /\ Param(ws, "vnc_port") # Null => Param(ws, "vnc_host") # Null

(***************************************************************************)
(* Claims about the display lookup of a console request (checked under     *)
(* SpecConsoleLookup).                                                     *)
(***************************************************************************)

\* The _run call of the display lookup in progress has failed.
LookupFailed ==
    /\ creq[MapperThread].pc = "lookup"
    /\ mop.op = "console_info"
    /\ mop.log # <<>>
    /\ ~mop.log[Len(mop.log)].ok

\* C31: a console request that found no session to reuse and whose display
\* lookup failed ends with the failure (status 502, no ticket), and from the
\* scan to the end of the request no session is inserted, no uuid is drawn
\* and no ticket is handed out.
C31_FailedLookupLeavesHistory ==
    [][/\ LookupFailed' => mop'.outcome = "raised"
       /\ (LookupFailed /\ creq'[MapperThread].pc = "idle") =>
             /\ cresp'.status = 502
             /\ cresp'.ticket = Null
             /\ cresp'.noVNC_url = Null
       /\ (creq[MapperThread].pc = "lookup" /\ (LookupFailed \/ LookupFailed')) =>
             /\ CONSOLE_SESSIONS' = CONSOLE_SESSIONS
             /\ nextUuid' = nextUuid
             /\ issued' = issued]_vars

\* C31 witness: a request for a VM whose earlier session is older than the
\* session TTL ended with the failure of its display lookup, and the history
\* still holds just that older session.
C31_Witness ==
    /\ cresp.status = 502
    /\ mop.outcome = "raised"
    /\ Len(CONSOLE_SESSIONS) = 1
    /\ CONSOLE_SESSIONS[1].vm_id = cresp.vm_id
    /\ now - timestamp(CONSOLE_SESSIONS[1].created_at) > CONSOLE_SESSION_TTL_S

(***************************************************************************)
(* Claims about the write endpoints (checked under SpecWrite).             *)
(***************************************************************************)

\* The writes the fetch of the refresh that produced row r had seen.
SeenBy(r) == seen[RowColls(r)[1].epoch]

\* The writes to host h whose endpoint has responded.
Answered(h) ==
    IF \E t \in Threads : wreq[t].host = h /\ wreq[t].pc \in {"called", "refresh"}
    THEN hyp[h] - 1 ELSE hyp[h]

RECURSIVE SplitLines(_)
SplitLines(text) ==
    LET Brk == {i \in 1..Len(text) : text[i] = "\n"}
    IN  IF Brk = {} THEN <<text>>
        ELSE LET b == CHOOSE x \in Brk : \A y \in Brk : x <= y
             IN  <<SubSeq(text, 1, b - 1)>> \o SplitLines(SubSeq(text, b + 1, Len(text)))

\* The state text the block reports: the value of its first State line,
\* <<>> when it has none.
Reported(text) ==
    LET ls == SplitLines(text)
        S == {n \in 1..Len(ls) : ls[n] # <<>> /\ ls[n][1] = "State:"}
    IN  IF S = {} THEN <<>>
        ELSE LET n == CHOOSE x \in S : \A y \in S : x <= y
             IN  SubSeq(ls[n], 3, Len(ls[n]))

\* The text contains the word, in either case.
Says(text, word) == \E i \in 1..Len(text) : lower(text[i]) = word

\* C38: the power state is running when the reported state text contains
\* running, otherwise paused when it contains paused, otherwise stopped
\* (also without a State line), and the dashboard and the agent give every
\* block the same power state.
C38_PowerStateByPrecedence ==
    power # NoPower =>
       /\ power.dashboard = power.agent
       /\ power.dashboard =
             (IF Says(Reported(info), "running") THEN "running"
              ELSE IF Says(Reported(info), "paused") THEN "paused"
              ELSE "stopped")

\* C38 witness: a block whose State line says paused and running, below a
\* Name line that says neither, was classified running by both.
C38_Witness ==
    /\ power = [dashboard |-> "running", agent |-> "running"]
    /\ Len(SplitLines(info)) = 2
    /\ SplitLines(info)[1][1] = "Name:"
    /\ In("paused", Reported(info))
    /\ In("running", Reported(info))

(***************************************************************************)
(* Claims about the agent's push state (checked under SpecPush).           *)
(***************************************************************************)

\* Pushes whose two requests have succeeded and whose locked update has not
\* run yet.
Recording == Cardinality({p \in Pushers : push[p].pc = "record"})

\* The step is the except clause of a failed push.
FailedPushRecorded ==
    \E p \in Pushers : push[p].pc = "except" /\ push'[p].pc = "idle"

\* C39: in every reachable agent state, under any interleaving of the
\* heartbeat loop and push-now requests, last_push_ok = true implies that
\* last_error is null, and push_count is the number of pushes whose register
\* and heartbeat requests both succeeded (those still before their locked
\* update not yet counted); push_count never decreases and a failed push
\* leaves it unchanged.
C39_PushStateConsistent ==
    /\ [](/\ agent_state.last_push_ok => agent_state.last_error = Null
          /\ agent_state.push_count = tally.succeeded - Recording)
    /\ [][/\ agent_state'.push_count >= agent_state.push_count
          /\ FailedPushRecorded =>
                /\ agent_state'.push_count = agent_state.push_count
                /\ ~agent_state'.last_push_ok
                /\ agent_state'.last_error # Null]_vars

\* Two pushes have succeeded, a third has failed at its heartbeat and left
\* its error beside the count of two, while no push is in progress.
C39_Witness ==
    /\ agent_state.push_count = 2
    /\ ~agent_state.last_push_ok
    /\ agent_state.last_error = HeartbeatError
    /\ tally.begun = MaxPushes
    /\ \A p \in Pushers : push[p].pc = "idle"

(***************************************************************************)
(* Claims about the agent's in-memory store (checked under SpecStore).     *)
(***************************************************************************)

\* Every network id in a stored VM's networks list is a stored network.
NetworksResolve ==
    \A v \in AgentVmIds : \A i \in 1..Len(vm_networks[v]) :
        vm_networks[v][i] \in agent_networks

\* Every vm_id with a snapshot map is a stored VM.
SnapshotsResolve ==
    \A v \in AgentVmIds : agent_snapshots[v].present => agent_vms[v] # AbsentVm

\* C40: in the agent's in-memory mode, after any sequence of VM, network and
\* snapshot operations, every network id in a VM's networks list refers to
\* an existing network, and every VM id that has a snapshot map refers to an
\* existing VM.
C40_StoreReferencesResolve == NetworksResolve /\ SnapshotsResolve

=============================================================================
